---------------------------- MODULE Spec2Model ----------------------------
(***************************************************************************)
(* Model of the nutrition bot's intent-routing and day-boundary engine.    *)
(*                                                                         *)
(*   src/timezone_utils.py  day-boundary calculator        (SpecTz)        *)
(*   src/ai_service.py      conversation memory            (SpecMem)       *)
(*   src/ai_service.py      custom-food matcher            (SpecMatch)     *)
(*   src/handlers.py, src/ai_service.py, src/database.py                   *)
(*                          a text turn, end to end        (Spec)          *)
(*                                                                         *)
(* Time is counted in minutes since 2024-01-01 00:00.  A naive datetime is *)
(* its wall-clock minute count; an aware datetime is a record              *)
(* [wall, off]: the wall-clock reading and the UTC offset its tzinfo       *)
(* carries, so that its UTC instant is wall - off.  A text is a tuple of   *)
(* one-character strings.                                                  *)
(***************************************************************************)
EXTENDS Integers, Sequences, FiniteSets, TLC

VARIABLES
    tz,        \* day-boundary calculator: inputs, the call made, its result
    memory,    \* NutritionAIService._conversation_memory: user id -> turns
    appends,   \* user id -> number of _add_to_memory calls made for that user
    mt,        \* custom-food matcher: inputs and the items returned
    entries,   \* table entries: the rows, in insertion order
    foods,     \* table custom_foods: the rows, in insertion order
    settings,  \* table user_settings: user id -> row
    clock,     \* the current UTC instant
    serverTz,  \* the zone of the host: datetime.now() reads its wall clock
    turn,      \* what the last update did: inputs, calls made, reply
    turns      \* number of updates handled so far

vars == <<tz, memory, appends, mt, entries, foods, settings, clock, serverTz, turn, turns>>

-----------------------------------------------------------------------------
(* Calendar: what datetime, strftime('%Y-%m-%d') and strptime do in 2024.  *)

\* The value v of a singleton {v}: Only({F(x) : x \in {e}}) computes e once
\* and hands its value to F, as an assignment to a local variable does.
Only(S) == CHOOSE x \in S : TRUE

MinutesPerHour == 6 * 10
MinutesPerDay == 24 * MinutesPerHour

\* Days of 2024 that precede month m (index m), and the whole year (index 13).
DaysBefore == <<0, 31, 60, 91, 121, 152, 182, 213, 244, 274, 305, 335, 366>>

\* A date string 'YYYY-MM-DD' is the triple <<year, month, day>>.
DateOfOrdinal(n) ==
    LET m == CHOOSE k \in 1..12 : DaysBefore[k] <= n /\ n < DaysBefore[k + 1]
    IN  <<2024, m, n - DaysBefore[m] + 1>>

\* dt.strftime('%Y-%m-%d') of a naive or aware datetime with wall clock w.
Strftime(w) == DateOfOrdinal(w \div MinutesPerDay)

\* datetime.strptime(s, '%Y-%m-%d'): midnight of that date, naive.
Strptime(s) == (DaysBefore[s[2]] + s[3] - 1) * MinutesPerDay

\* dt.hour
HourOf(w) == (w % MinutesPerDay) \div MinutesPerHour

\* date.replace(hour=h) of a datetime at midnight
ReplaceHour(w, h) == (w \div MinutesPerDay) * MinutesPerDay + h * MinutesPerHour

-----------------------------------------------------------------------------
(* pytz zones: the offset in force at each UTC instant.                    *)

ValidZones == {"UTC", "Europe/Moscow", "Europe/London", "America/New_York"}

\* Offset before the first transition of 2024, then <<utc instant, offset>>.
BaseOffset(zone) ==
    CASE zone = "UTC" -> 0
      [] zone = "Europe/Moscow" -> 3 * MinutesPerHour
      [] zone = "Europe/London" -> 0
      [] zone = "America/New_York" -> -5 * MinutesPerHour

\* 2024: London 31 Mar 01:00 UTC and 27 Oct 01:00 UTC; New York 10 Mar
\* 07:00 UTC and 3 Nov 06:00 UTC.
Transitions(zone) ==
    CASE zone = "Europe/London" ->
            << <<90 * MinutesPerDay + 1 * MinutesPerHour, 1 * MinutesPerHour>>,
               <<300 * MinutesPerDay + 1 * MinutesPerHour, 0>> >>
      [] zone = "America/New_York" ->
            << <<69 * MinutesPerDay + 7 * MinutesPerHour, -4 * MinutesPerHour>>,
               <<307 * MinutesPerDay + 6 * MinutesPerHour, -5 * MinutesPerHour>> >>
      [] OTHER -> << >>

\* tzinfo._dst is non-zero for the summer-time offset of a zone.
IsDst(zone, off) == off # BaseOffset(zone)

ZoneOffsets(zone) ==
    {BaseOffset(zone)} \cup {Transitions(zone)[i][2] : i \in DOMAIN Transitions(zone)}

\* The offset of the zone at UTC instant u (tz.fromutc).
UtcOffset(zone, u) ==
    Only({IF past = {} THEN BaseOffset(zone)
          ELSE Transitions(zone)[CHOOSE i \in past : \A j \in past : j <= i][2] :
          past \in {{i \in DOMAIN Transitions(zone) : Transitions(zone)[i][1] <= u}}})

\* datetime.now(tz) at UTC instant u
NowIn(zone, u) == Only({[wall |-> u + off, off |-> off] : off \in {UtcOffset(zone, u)}})

\* aware - timedelta(days=n): wall-clock arithmetic, the tzinfo is kept as is
MinusDays(dt, n) == [dt EXCEPT !.wall = dt.wall - n * MinutesPerDay]

\* aware.astimezone(pytz.UTC)
AsUtc(dt) == dt.wall - dt.off

\* tz.localize(naive), is_dst=False: pytz tries the tzinfo in force a day
\* before and a day after, keeps those that read back as the same wall
\* clock; a wall clock in a gap takes the tzinfo of six hours earlier, an
\* ambiguous one the tzinfo that is not summer time.
LocalizeCandidates(zone, w) ==
    {o \in {UtcOffset(zone, w - MinutesPerDay), UtcOffset(zone, w + MinutesPerDay)} :
        UtcOffset(zone, w - o) = o}

LocalizeOffset(zone, w) ==
    Only({IF Cardinality(c) = 1 THEN CHOOSE o \in c : TRUE
          ELSE IF c = {}
          THEN CHOOSE o \in LocalizeCandidates(zone, w - 6 * MinutesPerHour) : TRUE
          ELSE CHOOSE o \in c : ~IsDst(zone, o) :
          c \in {LocalizeCandidates(zone, w)}})

Localize(zone, w) == [wall |-> w, off |-> LocalizeOffset(zone, w)]

-----------------------------------------------------------------------------
(* src/timezone_utils.py                                                   *)

Zones == ValidZones \cup {"Mars/Phobos"}

UnknownTimeZoneError == "UnknownTimeZoneError"

\* get_current_date_for_user(timezone, day_end_hour), called at UTC instant u
get_current_date_for_user_lte(zone, h, u) ==
    IF zone \notin ValidZones THEN UnknownTimeZoneError
    ELSE Only({IF HourOf(now.wall) <= h
               THEN Strftime(MinusDays(now, 1).wall)
               ELSE Strftime(now.wall) :
               now \in {NowIn(zone, u)}})

get_current_date_for_user(zone, h, u) ==
    IF zone \notin ValidZones THEN UnknownTimeZoneError
    ELSE Only({IF HourOf(now.wall) < h
               THEN Strftime(MinusDays(now, 1).wall)
               ELSE Strftime(now.wall) :
               now \in {NowIn(zone, u)}})

\* get_relative_date(relative_to, timezone, day_end_hour), called at u
get_relative_date(rel, zone, h, u) ==
    IF zone \notin ValidZones THEN UnknownTimeZoneError
    ELSE Only({LET logical_today == IF HourOf(now.wall) < h THEN MinusDays(now, 1)
                                    ELSE now
               IN  CASE rel = "today" -> Strftime(logical_today.wall)
                     [] rel = "yesterday" -> Strftime(MinusDays(logical_today, 1).wall)
                     [] rel = "tomorrow" -> Strftime(MinusDays(logical_today, -1).wall)
                     [] OTHER -> Strftime(logical_today.wall) :
               now \in {NowIn(zone, u)}})

\* get_day_start_end(date_str, timezone, day_end_hour): <<start_utc, end_utc>>
get_day_start_end_same_day(date_str, zone, h) ==
    IF zone \notin ValidZones THEN UnknownTimeZoneError
    ELSE LET date == Strptime(date_str)
             end_local == Localize(zone, ReplaceHour(date, h))
         IN  <<AsUtc(end_local), AsUtc(end_local) + MinutesPerDay>>

get_day_start_end(date_str, zone, h) ==
    IF zone \notin ValidZones THEN UnknownTimeZoneError
    ELSE LET date == Strptime(date_str)
             start_local == MinusDays(Localize(zone, ReplaceHour(date, h)), 1)
             end_local == Localize(zone, ReplaceHour(date, h))
         IN  <<AsUtc(start_local), AsUtc(end_local)>>

-----------------------------------------------------------------------------
(* The calculator driven over instants around a month end, a spring        *)
(* change (London, 31 March), the 1-2 June scenario and an autumn change   *)
(* (New York, 3 November).                                                 *)

WindowDays == 3

\* First day of each window, as a day of the year counted from 0:
\* 30 March, 1 June, 2 November.
WindowStarts == {89, 152, 306}

MinutesOfHour == {0, 5, 30}

TzInstants ==
    {(s + d) * MinutesPerDay + hh * MinutesPerHour + mm :
        s \in WindowStarts, d \in 0..(WindowDays - 1), hh \in 0..23, mm \in MinutesOfHour}

DayEndHours == 0..23

TzNone == [op |-> "none"]

TzIdle == tz = TzNone
MemIdle == memory = << >> /\ appends = << >>
MtIdle == mt = [op |-> "none"]
BotIdle ==
    /\ entries = [rows |-> << >>, lastrowid |-> 0]
    /\ foods = << >>
    /\ settings = << >>
    /\ clock = 0
    /\ serverTz = "UTC"
    /\ turn = [op |-> "none"]
    /\ turns = 0

InitTz ==
    /\ tz \in [op : {"input"}, now : TzInstants, zone : Zones, h : DayEndHours,
               rel : {"-"}, date : {<< >>}, range : {<< >>}]
    /\ MemIdle
    /\ MtIdle
    /\ BotIdle

TzGetCurrentDate ==
    /\ tz.op = "input"
    /\ tz' = [tz EXCEPT !.op = "current",
                        !.date = get_current_date_for_user(tz.zone, tz.h, tz.now)]
    /\ UNCHANGED <<memory, appends, mt, entries, foods, settings, clock, serverTz, turn, turns>>

TzGetRelativeDate(rel) ==
    /\ tz.op = "input"
    /\ tz' = [tz EXCEPT !.op = "relative", !.rel = rel,
                        !.date = get_relative_date(rel, tz.zone, tz.h, tz.now)]
    /\ UNCHANGED <<memory, appends, mt, entries, foods, settings, clock, serverTz, turn, turns>>

\* get_day_start_end on a date string one of the two functions above returned
TzGetDayStartEnd ==
    /\ tz.op \in {"current", "relative"}
    /\ tz.date # UnknownTimeZoneError
    /\ tz' = [tz EXCEPT !.op = "range",
                        !.range = get_day_start_end(tz.date, tz.zone, tz.h)]
    /\ UNCHANGED <<memory, appends, mt, entries, foods, settings, clock, serverTz, turn, turns>>

NextTz ==
    \/ TzGetCurrentDate
    \/ \E rel \in {"today", "yesterday", "tomorrow", "week"} : TzGetRelativeDate(rel)
    \/ TzGetDayStartEnd

SpecTz == InitTz /\ [][NextTz]_vars

-----------------------------------------------------------------------------
(* Properties of the day-boundary calculator (under SpecTz).               *)

DaysIn(m) == DaysBefore[m + 1] - DaysBefore[m]

\* The calendar date that follows date s.
NextDate(s) == IF s[3] < DaysIn(s[2]) THEN <<s[1], s[2], s[3] + 1>> ELSE <<s[1], s[2] + 1, 1>>

\* The UTC instants at which the zone's wall clock reads w.
InstantsOfLocal(zone, w) == {u \in {w - o : o \in ZoneOffsets(zone)} : u + UtcOffset(zone, u) = w}

\* Wall clock of h:00 on the date s.
WallAt(s, h) == (DaysBefore[s[2]] + s[3] - 1) * MinutesPerDay + h * MinutesPerHour

\* No change of offset between h:00 on the day before s and h:00 on s.
NoDstTransition(zone, s, h) ==
    LET a == InstantsOfLocal(zone, WallAt(s, h) - MinutesPerDay)
        b == InstantsOfLocal(zone, WallAt(s, h))
    IN  /\ Cardinality(a) = 1
        /\ Cardinality(b) = 1
        /\ \A u \in a, v \in b : UtcOffset(zone, u) = UtcOffset(zone, v)

\* 2 June 2024, 00:30 UTC and 01:05 UTC: 03:30 and 04:05 in Moscow.
Jun2_0330_Moscow == 153 * MinutesPerDay + 30
Jun2_0405_Moscow == 153 * MinutesPerDay + MinutesPerHour + 5

\* C3: for every valid zone, day_end_hour in 0..23 and instant, when the local
\* hour is below day_end_hour get_current_date_for_user returns the calendar
\* date before the local date, otherwise (also at day_end_hour:00 sharp) the
\* local calendar date; Moscow with day_end_hour 4 gives 2024-06-01 at 03:30
\* and 2024-06-02 at 04:05 on 2 June.
C3_LogicalToday ==
    (tz.op = "current" /\ tz.zone \in ValidZones) =>
        LET local == tz.now + UtcOffset(tz.zone, tz.now)
        IN  /\ HourOf(local) < tz.h => NextDate(tz.date) = Strftime(local)
            /\ HourOf(local) >= tz.h => tz.date = Strftime(local)
            /\ (tz.zone = "Europe/Moscow" /\ tz.h = 4 /\ tz.now = Jun2_0330_Moscow)
                    => tz.date = <<2024, 6, 1>>
            /\ (tz.zone = "Europe/Moscow" /\ tz.h = 4 /\ tz.now = Jun2_0405_Moscow)
                    => tz.date = <<2024, 6, 2>>

C3_Witness ==
    /\ tz.op = "current"
    /\ tz.zone = "Europe/Moscow"
    /\ tz.h = 4
    /\ tz.now = Jun2_0330_Moscow
    /\ tz.date = <<2024, 6, 1>>

\* C4: for a date D, a valid zone and day_end_hour h with no DST change
\* between h:00 on D-1 and h:00 on D, get_day_start_end returns a range of
\* exactly 24 hours that ends at the UTC instant of h:00 local time on D and
\* starts at the UTC instant of h:00 local time on the day before D.
C4_DayRange ==
    (tz.op = "range" /\ NoDstTransition(tz.zone, tz.date, tz.h)) =>
        /\ tz.range[2] - tz.range[1] = 24 * MinutesPerHour
        /\ tz.range[2] \in InstantsOfLocal(tz.zone, WallAt(tz.date, tz.h))
        /\ tz.range[1] \in InstantsOfLocal(tz.zone, WallAt(tz.date, tz.h) - MinutesPerDay)

C4_Witness ==
    /\ tz.op = "range"
    /\ tz.zone = "America/New_York"
    /\ tz.h = 23
    /\ tz.date = <<2024, 6, 1>>
    /\ NoDstTransition(tz.zone, tz.date, tz.h)
    /\ tz.range[2] = 152 * MinutesPerDay + (23 + 4) * MinutesPerHour

\* C5: for every date D, also next to a DST change, the start returned for D
\* is the UTC instant of day_end_hour:00 local time on D-1, and it equals the
\* end returned for D-1, so consecutive logical days neither overlap nor
\* leave a gap.
C5_ContiguousAcrossDst ==
    (tz.op = "range") =>
        LET before == InstantsOfLocal(tz.zone, WallAt(tz.date, tz.h) - MinutesPerDay)
            prev == DateOfOrdinal(Strptime(tz.date) \div MinutesPerDay - 1)
        IN  /\ Cardinality(before) = 1 => tz.range[1] \in before
            /\ tz.range[1] = get_day_start_end(prev, tz.zone, tz.h)[2]

\* C14: a timezone string that is not a valid zone never raises to the
\* caller and resolves to UTC: the date get_current_date_for_user or
\* get_relative_date returns for it is the one returned for UTC.
C14_UnknownZoneIsUtc ==
    (tz.op \in {"current", "relative"} /\ tz.zone \notin ValidZones) =>
        /\ tz.date # UnknownTimeZoneError
        /\ tz.op = "current" => tz.date = get_current_date_for_user("UTC", tz.h, tz.now)
        /\ tz.op = "relative" => tz.date = get_relative_date(tz.rel, "UTC", tz.h, tz.now)

\* C20: the two directions of the calculator agree: the UTC range
\* get_day_start_end returns for the logical date that
\* get_current_date_for_user computed at the instant now, for the same zone
\* and day_end_hour, contains now.
C20_DirectionsAgree ==
    (tz.op = "range" /\ tz.rel = "-") =>
        /\ tz.range[1] <= tz.now
        /\ tz.now < tz.range[2]

-----------------------------------------------------------------------------
(* src/ai_service.py: conversation memory.  memory is the dict             *)
(* _conversation_memory: its domain holds the user ids that have a list.   *)
(* A turn is [role, content, extra]; the 'timestamp' key is written and    *)
(* never read, and is left out.                                            *)

Users == {1, 2}

max_memory_size == 10

\* lst[-n:] for n >= 1
LastN(lst, n) == IF Len(lst) <= n THEN lst ELSE SubSeq(lst, Len(lst) - n + 1, Len(lst))

\* lst[:n]
FirstN(lst, n) == IF Len(lst) <= n THEN lst ELSE SubSeq(lst, 1, n)

\* self._conversation_memory after _add_to_memory(user_id, role, content, extra)
add_to_memory_keep_oldest(mem, u, role, content, extra) ==
    LET old == IF u \in DOMAIN mem THEN mem[u] ELSE << >>
        appended == Append(old, [role |-> role, content |-> content, extra |-> extra])
        trimmed == IF Len(appended) > max_memory_size
                   THEN FirstN(appended, max_memory_size)
                   ELSE appended
    IN  [v \in DOMAIN mem \cup {u} |-> IF v = u THEN trimmed ELSE mem[v]]

\* _add_to_memory writing to one buffer that all users share
add_to_memory_shared(mem, u, role, content, extra) ==
    [v \in DOMAIN mem \cup {u} |->
        LastN(Append(IF v \in DOMAIN mem THEN mem[v] ELSE << >>,
                     [role |-> role, content |-> content, extra |-> extra]),
              max_memory_size)]

\* _add_to_memory that trims the list before it appends
add_to_memory_trim_first(mem, u, role, content, extra) ==
    LET old == IF u \in DOMAIN mem THEN mem[u] ELSE << >>
        trimmed == IF Len(old) > max_memory_size THEN LastN(old, max_memory_size) ELSE old
    IN  [v \in DOMAIN mem \cup {u} |->
            IF v = u THEN Append(trimmed, [role |-> role, content |-> content, extra |-> extra])
            ELSE mem[v]]

add_to_memory(mem, u, role, content, extra) ==
    LET old == IF u \in DOMAIN mem THEN mem[u] ELSE << >>
        appended == Append(old, [role |-> role, content |-> content, extra |-> extra])
        trimmed == IF Len(appended) > max_memory_size
                   THEN LastN(appended, max_memory_size)
                   ELSE appended
    IN  [v \in DOMAIN mem \cup {u} |-> IF v = u THEN trimmed ELSE mem[v]]

\* The count of record operations made for user u so far.
Appended(u) == IF u \in DOMAIN appends THEN appends[u] ELSE 0

CountAppend(u) == [v \in DOMAIN appends \cup {u} |-> IF v = u THEN Appended(u) + 1 ELSE appends[v]]

TotalAppended == Appended(1) + Appended(2)

(* The record operation driven directly: the k-th turn recorded for a user *)
(* carries the content k, so that turns can be told apart.                 *)

MaxAppends == 12

Roles == {"user", "bot"}

InitMem ==
    /\ memory = << >>
    /\ appends = << >>
    /\ TzIdle
    /\ MtIdle
    /\ BotIdle

AddToMemory(u, role) ==
    /\ TotalAppended < MaxAppends
    /\ memory' = add_to_memory(memory, u, role, Appended(u) + 1, "-")
    /\ appends' = CountAppend(u)
    /\ UNCHANGED <<tz, mt, entries, foods, settings, clock, serverTz, turn, turns>>

NextMem == \E u \in Users, role \in Roles : AddToMemory(u, role)

SpecMem == InitMem /\ [][NextMem]_vars

\* C2: after any sequence of record operations, for any users and roles, each
\* user's memory holds at most 10 turns: all of them while no more than 10
\* were appended, and after N > 10 appends exactly the 10 most recently
\* appended ones, oldest first.
C2_MemoryCap ==
    \A u \in DOMAIN memory :
        LET n == Appended(u)
            kept == IF n > 10 THEN 10 ELSE n
        IN  /\ Len(memory[u]) <= 10
            /\ Len(memory[u]) = kept
            /\ \A i \in 1..kept : memory[u][i].content = n - kept + i

C2_Witness ==
    \E u \in DOMAIN memory :
        /\ Appended(u) = 12
        /\ Len(memory[u]) = 10
        /\ memory[u][1].content = 3
        /\ memory[u][10].content = 12

-----------------------------------------------------------------------------
(* Texts: tuples of one-character strings, with the str and re operations  *)
(* the code applies to them.                                               *)

Digits == {"0", "1", "2", "3", "4", "5", "6", "7", "8", "9"}

IsDigit(c) == c \in Digits

\* what \s matches
IsSpace(c) == c = " "

DigitValue(c) ==
    CASE c = "0" -> 0 [] c = "1" -> 1 [] c = "2" -> 2 [] c = "3" -> 3 [] c = "4" -> 4
      [] c = "5" -> 5 [] c = "6" -> 6 [] c = "7" -> 7 [] c = "8" -> 8 [] c = "9" -> 9

\* int(s) of a run of digits
RECURSIVE IntOf(_)
IntOf(s) == IF s = << >> THEN 0
            ELSE 10 * IntOf(SubSeq(s, 1, Len(s) - 1)) + DigitValue(s[Len(s)])

LowerChar(c) ==
    CASE c = "A" -> "a" [] c = "B" -> "b" [] c = "E" -> "e" [] c = "G" -> "g" [] c = "I" -> "i"
      [] c = "K" -> "k" [] c = "O" -> "o" [] c = "P" -> "p" [] c = "Q" -> "q" [] c = "R" -> "r"
      [] c = "Y" -> "y" [] OTHER -> c

\* s.lower()
Lower(s) == [i \in 1..Len(s) |-> LowerChar(s[i])]

\* s.strip()
Strip(s) ==
    LET solid == {i \in 1..Len(s) : ~IsSpace(s[i])}
    IN  IF solid = {} THEN << >>
        ELSE SubSeq(s, CHOOSE i \in solid : \A j \in solid : i <= j,
                       CHOOSE i \in solid : \A j \in solid : j <= i)

\* s.split(',')
RECURSIVE SplitComma(_)
SplitComma(s) ==
    LET commas == {i \in 1..Len(s) : s[i] = ","}
    IN  IF commas = {} THEN <<s>>
        ELSE LET c == CHOOSE i \in commas : \A j \in commas : i <= j
             IN  <<SubSeq(s, 1, c - 1)>> \o SplitComma(SubSeq(s, c + 1, Len(s)))

\* pat in s
Contains(s, pat) == \E i \in 1..(Len(s) - Len(pat) + 1) : SubSeq(s, i, i + Len(pat) - 1) = pat

\* The matches of (\d+)\s*pat in s that begin at index b: <<digits, spaces>>
\* counts for which the digits, the spaces and then pat follow one another.
MatchesAt(s, pat, b) ==
    IF ~IsDigit(s[b]) THEN {} ELSE
    {m \in (1..(Len(s) - b + 1)) \X (0..(Len(s) - b)) :
        /\ b + m[1] + m[2] + Len(pat) - 1 <= Len(s)
        /\ \A i \in b..(b + m[1] - 1) : IsDigit(s[i])
        /\ \A i \in (b + m[1])..(b + m[1] + m[2] - 1) : IsSpace(s[i])
        /\ SubSeq(s, b + m[1] + m[2], b + m[1] + m[2] + Len(pat) - 1) = pat}

\* the same search without the \s* (digits glued to the name only)
SearchQuantity_no_space(s, pat) ==
    LET starts == {b \in 1..Len(s) : \E m \in MatchesAt(s, pat, b) : m[2] = 0}
    IN  IF starts = {} THEN << >>
        ELSE LET b == CHOOSE x \in starts : \A y \in starts : x <= y
                 ms == {x \in MatchesAt(s, pat, b) : x[2] = 0}
                 m == CHOOSE x \in ms : \A y \in ms : y[1] <= x[1]
             IN  SubSeq(s, b, b + m[1] - 1)

\* re.search(rf'(\d+)\s*{re.escape(pat)}', s): group(1) of the leftmost match,
\* \d+ as long as it can be; << >> when there is no match.
SearchQuantity(s, pat) ==
    LET starts == {b \in 1..Len(s) : MatchesAt(s, pat, b) # {}}
    IN  IF starts = {} THEN << >>
        ELSE LET b == CHOOSE x \in starts : \A y \in starts : x <= y
                 ms == MatchesAt(s, pat, b)
                 m == CHOOSE x \in ms : \A y \in ms : y[1] <= x[1]
             IN  SubSeq(s, b, b + m[1] - 1)

-----------------------------------------------------------------------------
(* src/ai_service.py: custom-food matcher.  A saved food is a row of       *)
(* custom_foods: [id, user_id, name, aliases, grams, calories, protein,    *)
(* fat, carbs], name and aliases as texts; calories, protein, fat and      *)
(* carbs are REAL columns and are counted here in tenths.  A NutritionItem *)
(* has calories in whole kcal (an int) and protein, fat, carbs in tenths;  *)
(* its name f"{name} ({grams}g x {multiplier})" is the triple of the       *)
(* three values formatted into it.                                         *)

\* [a.strip() for a in food.aliases.split(',') if a.strip()]
AliasList(food) ==
    LET parts == SplitComma(food.aliases)
        stripped == [i \in 1..Len(parts) |-> Strip(parts[i])]
    IN  SelectSeq(stripped, LAMBDA a : a # << >>)

\* multiplier: int(match.group(1)) when the pattern is found, else 1
Multiplier(text_lower, key) ==
    LET q == SearchQuantity(text_lower, key)
    IN  IF q = << >> THEN 1 ELSE IntOf(q)

\* NutritionItem(...) built for food with the multiplier
ScaledItem(food, multiplier) ==
    [name |-> <<food.name, food.grams, multiplier>>,
     grams |-> food.grams * multiplier,
     calories |-> (food.calories * multiplier) \div 10,
     protein |-> food.protein * multiplier,
     fat |-> food.fat * multiplier,
     carbs |-> food.carbs * multiplier]

\* The loop body without the break after the first alias found
ItemsOfFood_every_alias(text_lower, food) ==
    IF Contains(text_lower, food.name)
    THEN <<ScaledItem(food, Multiplier(text_lower, food.name))>>
    ELSE LET hit == SelectSeq(AliasList(food), LAMBDA x : Contains(text_lower, x))
         IN  [i \in 1..Len(hit) |-> ScaledItem(food, Multiplier(text_lower, hit[i]))]

\* The items one food of the loop adds to found_items.
ItemsOfFood(text_lower, food) ==
    IF Contains(text_lower, food.name)
    THEN <<ScaledItem(food, Multiplier(text_lower, food.name))>>
    ELSE LET aliases == AliasList(food)
             hits == {i \in 1..Len(aliases) : Contains(text_lower, aliases[i])}
         IN  IF hits = {} THEN << >>
             ELSE LET first == CHOOSE i \in hits : \A j \in hits : i <= j
                  IN  <<ScaledItem(food, Multiplier(text_lower, aliases[first]))>>

RECURSIVE FoundItems(_, _)
FoundItems(text_lower, custom_foods) ==
    IF custom_foods = << >> THEN << >>
    ELSE ItemsOfFood(text_lower, Head(custom_foods)) \o FoundItems(text_lower, Tail(custom_foods))

\* _check_custom_foods(text, repo, user_id), custom_foods being what
\* repo.get_custom_foods(user_id) returned
check_custom_foods(text, custom_foods) ==
    IF custom_foods = << >> THEN << >> ELSE FoundItems(Lower(text), custom_foods)

-----------------------------------------------------------------------------
(* The matcher driven over every short text of a small alphabet and a few  *)
(* lists of saved foods, each list in the order get_custom_foods returns   *)
(* (ORDER BY name).                                                        *)

MaxTextLen == 4

Alphabet == {"a", "b", "B", " ", "2", "3"}

ShortTexts == UNION {[1..n -> Alphabet] : n \in 1..MaxTextLen}

\* "el 2 banana"
TextTwoBananas == <<"e", "l", " ", "2", " ", "b", "a", "n", "a", "n", "a">>

\* "Banan, 12  banan"
TextDozenBananas ==
    <<"B", "a", "n", "a", "n", ",", " ", "1", "2", " ", " ", "b", "a", "n", "a", "n">>

Texts == ShortTexts \cup {TextTwoBananas, TextDozenBananas}

FoodBanan ==
    [id |-> 1, user_id |-> 1, name |-> <<"b", "a", "n", "a", "n">>, aliases |-> << >>,
     grams |-> 120, calories |-> 1050, protein |-> 13, fat |-> 4, carbs |-> 270]

FoodAb ==
    [id |-> 2, user_id |-> 1, name |-> <<"a", "b">>, aliases |-> <<"a">>,
     grams |-> 100, calories |-> 1555, protein |-> 61, fat |-> 32, carbs |-> 255]

FoodB ==
    [id |-> 3, user_id |-> 1, name |-> <<"b">>, aliases |-> << >>,
     grams |-> 50, calories |-> 702, protein |-> 20, fat |-> 5, carbs |-> 100]

\* aliases " a ,,b": the aliases "a" and "b"
FoodKk ==
    [id |-> 4, user_id |-> 1, name |-> <<"k", "k">>, aliases |-> <<" ", "a", " ", ",", ",", "b">>,
     grams |-> 30, calories |-> 99, protein |-> 1, fat |-> 2, carbs |-> 3]

FoodLists ==
    { << >>, <<FoodB>>, <<FoodAb, FoodB>>, <<FoodKk>>, <<FoodAb, FoodB, FoodKk>>, <<FoodBanan>> }

InitMatch ==
    /\ mt \in [op : {"input"}, text : Texts, foods : FoodLists, items : {<< >>}]
    /\ TzIdle
    /\ MemIdle
    /\ BotIdle

CheckCustomFoods ==
    /\ mt.op = "input"
    /\ mt' = [mt EXCEPT !.op = "matched", !.items = check_custom_foods(mt.text, mt.foods)]
    /\ UNCHANGED <<tz, memory, appends, entries, foods, settings, clock, serverTz, turn, turns>>

NextMatch == CheckCustomFoods

SpecMatch == InitMatch /\ [][NextMatch]_vars

\* The name or alias by which the text matches the food: its name when the
\* text contains it, else the first of its aliases the text contains, else
\* << >> (no match).
MatchedKey(t, food) ==
    LET aliases == AliasList(food)
        hits == {i \in 1..Len(aliases) : Contains(t, aliases[i])}
    IN  IF Contains(t, food.name) THEN food.name
        ELSE IF hits = {} THEN << >>
        ELSE aliases[CHOOSE i \in hits : \A j \in hits : i <= j]

\* The run of digits that ends right before index p of t, blanks skipped.
QuantityBefore(t, p) ==
    LET solid == {i \in 1..(p - 1) : ~IsSpace(t[i])}
        q == IF solid = {} THEN 0 ELSE CHOOSE i \in solid : \A j \in solid : j <= i
        run == {r \in 1..q : \A i \in r..q : IsDigit(t[i])}
    IN  IF run = {} THEN << >>
        ELSE SubSeq(t, CHOOSE r \in run : \A x \in run : r <= x, q)

\* The integer written immediately before an occurrence of key in t (the
\* first such occurrence), and 1 when no occurrence has one.
ExpectedMultiplier(t, key) ==
    LET occ == {p \in 1..(Len(t) - Len(key) + 1) : SubSeq(t, p, p + Len(key) - 1) = key}
        quantified == {p \in occ : QuantityBefore(t, p) # << >>}
    IN  IF quantified = {} THEN 1
        ELSE IntOf(QuantityBefore(t, CHOOSE p \in quantified : \A x \in quantified : p <= x))

\* C8: every food the utterance matches by name or alias yields one item whose
\* multiplier is the integer immediately preceding the matched name or alias
\* in the utterance when there is one and 1 otherwise, and whose grams are
\* food.grams times that multiplier; a food of 120 g and 105 kcal and the
\* utterance "el 2 banana" give exactly one item of 240 g and 210 kcal.
C8_Multiplier ==
    (mt.op = "matched") =>
        LET t == Lower(mt.text)
            matched == SelectSeq(mt.foods, LAMBDA f : MatchedKey(t, f) # << >>)
        IN  /\ Len(mt.items) = Len(matched)
            /\ \A i \in 1..Len(matched) :
                  LET m == ExpectedMultiplier(t, MatchedKey(t, matched[i]))
                  IN  /\ mt.items[i].name = <<matched[i].name, matched[i].grams, m>>
                      /\ mt.items[i].grams = matched[i].grams * m
            /\ (mt.text = TextTwoBananas /\ mt.foods = <<FoodBanan>>) =>
                  /\ Len(mt.items) = 1
                  /\ mt.items[1].grams = 240
                  /\ mt.items[1].calories = 210

C8_Witness ==
    /\ mt.op = "matched"
    /\ mt.text = TextTwoBananas
    /\ mt.foods = <<FoodBanan>>
    /\ Len(mt.items) = 1
    /\ mt.items[1].name = <<FoodBanan.name, 120, 2>>
    /\ mt.items[1].grams = 240

\* C18: for every item the matcher returns for a saved food and a
\* multiplier m, the calories are food.calories * m rounded to the nearest
\* integer (at most half a unit away), and protein, fat and carbs are the
\* scaled values to one decimal place (values counted in tenths).
C18_Rounding ==
    (mt.op = "matched") =>
        \A i \in 1..Len(mt.items) :
            \E k \in 1..Len(mt.foods) :
                LET food == mt.foods[k]
                    item == mt.items[i]
                    m == item.name[3]
                    off == 10 * item.calories - food.calories * m
                IN  /\ item.name[1] = food.name
                    /\ -5 <= off /\ off <= 5
                    /\ item.protein = food.protein * m
                    /\ item.fat = food.fat * m
                    /\ item.carbs = food.carbs * m

-----------------------------------------------------------------------------
(* JSON values as json.loads returns them, tagged by their Python type.    *)
(* A str is carried either as a symbol (tag "str", a TLA+ string, for      *)
(* action names and other words compared as wholes) or character by        *)
(* character (tag "text", for utterances and hints that are searched).     *)

JNull == [t |-> "null"]

JStr(s) == [t |-> "str", v |-> s]

JText(s) == [t |-> "text", v |-> s]

JNum(n) == [t |-> "num", v |-> n]

JList(l) == [t |-> "list", v |-> l]

JObj(f) == [t |-> "obj", v |-> f]

\* bool(x) of a JSON value
Truthy(x) ==
    CASE x.t = "null" -> FALSE
      [] x.t = "str" -> x.v # ""
      [] x.t = "text" -> x.v # << >>
      [] x.t = "num" -> x.v # 0
      [] x.t = "list" -> x.v # << >>
      [] x.t = "obj" -> DOMAIN x.v # {}

\* d.get(k, default) of a dict d
Get(d, k, default) == IF k \in DOMAIN d.v THEN d.v[k] ELSE default

\* x == s for a JSON value x and a str literal s
IsStr(x, s) == x.t = "str" /\ x.v = s

\* a number read from a JSON value that holds one, 0 for SQL NULL
NumOf(x) == IF x.t = "num" THEN x.v ELSE 0

\* The exception a statement raised; NoException when it completed.
NoException == "none"

-----------------------------------------------------------------------------
(* src/database.py: NutritionRepository.  The table entries is the record  *)
(* [rows, lastrowid]: its rows in insertion order and the value of its     *)
(* AUTOINCREMENT sequence.  A row of entries is [id, user_id, date,        *)
(* timestamp, raw_input, items, total_calories, total_protein, total_fat,  *)
(* total_carbs]: date as strftime writes it, timestamp the naive wall      *)
(* clock of the host in minutes, the four REAL totals as JSON values (a    *)
(* number, or null for SQL NULL).  A row of user_settings is [language,    *)
(* timezone, day_end_hour]; the four goal columns are written by           *)
(* '/settings goal' only, are read by nothing but the settings screen, and *)
(* are left out.                                                           *)

DefaultTimezone == "UTC"

DefaultDayEndHour == 4

DefaultSettings ==
    [language |-> "ru", timezone |-> DefaultTimezone, day_end_hour |-> DefaultDayEndHour]

\* datetime.now() on the host: naive wall clock of serverTz
ServerNow == clock + UtcOffset(serverTz, clock)

RECURSIVE SumOver(_, _)
SumOver(rows, field) ==
    IF rows = << >> THEN 0 ELSE NumOf(Head(rows)[field]) + SumOver(Tail(rows), field)

\* save_entry(user_id, raw_input, items, totals): the table afterwards
save_entry(table, u, raw_input, items, totals) ==
    LET now == ServerNow
        row == [id |-> table.lastrowid + 1, user_id |-> u, date |-> Strftime(now),
                timestamp |-> now, raw_input |-> raw_input, items |-> items,
                total_calories |-> totals.calories, total_protein |-> totals.protein,
                total_fat |-> totals.fat, total_carbs |-> totals.carbs]
    IN  [rows |-> Append(table.rows, row), lastrowid |-> table.lastrowid + 1]

\* get_daily_summary(user_id, date_str, timezone, day_end_hour): the stored
\* timestamps are compared, as they stand, with the UTC range of the day
get_daily_summary(table, u, date_str, zone, h) ==
    Only({Only({[calories |-> SumOver(hit, "total_calories"),
                 protein |-> SumOver(hit, "total_protein"),
                 fat |-> SumOver(hit, "total_fat"), carbs |-> SumOver(hit, "total_carbs"),
                 entries_count |-> Len(hit)] :
                hit \in {SelectSeq(table.rows, LAMBDA r : /\ r.user_id = u
                                                          /\ r.timestamp >= range[1]
                                                          /\ r.timestamp < range[2])}}) :
          range \in {get_day_start_end(date_str, zone, h)}})

\* get_day_entries(user_id, date_str): the user's rows of that date column
\* (the report reads their fields, not their order)
get_day_entries(table, u, date_str) ==
    SelectSeq(table.rows, LAMBDA r : r.user_id = u /\ r.date = date_str)

\* delete_last_entry(user_id): [table, ok]; the latest timestamp, and among
\* equal ones the row inserted last
delete_last_entry(table, u) ==
    LET mine == {i \in 1..Len(table.rows) : table.rows[i].user_id = u}
    IN  IF mine = {} THEN [table |-> table, ok |-> FALSE]
        ELSE LET last == CHOOSE i \in mine : \A j \in mine :
                            \/ table.rows[j].timestamp < table.rows[i].timestamp
                            \/ (table.rows[j].timestamp = table.rows[i].timestamp /\ j <= i)
             IN  [table |-> [table EXCEPT !.rows =
                                SubSeq(table.rows, 1, last - 1)
                                    \o SubSeq(table.rows, last + 1, Len(table.rows))],
                  ok |-> TRUE]

\* The characters of the model's texts in their code-point order.
CharOrder ==
    <<" ", ",", ".", "0", "1", "2", "3", "4", "5", "6", "7", "8", "9", "?", "A", "B", "K",
      "a", "b", "c", "d", "e", "f", "g", "h", "i", "j", "k", "l", "m", "n", "o", "p", "q",
      "r", "s", "t", "u", "v", "w", "x", "y", "z">>

CharRank(c) == CHOOSE i \in 1..Len(CharOrder) : CharOrder[i] = c

\* a < b for two texts, as SQLite's BINARY collation orders them
TextLess(a, b) ==
    \E i \in 1..(Len(a) + 1) :
        /\ i <= Len(b)
        /\ \A j \in 1..(i - 1) : a[j] = b[j]
        /\ (i = Len(a) + 1 \/ CharRank(a[i]) < CharRank(b[i]))

RECURSIVE OrderByName(_)
OrderByName(rows) ==
    IF rows = {} THEN << >>
    ELSE LET first == CHOOSE r \in rows : \A q \in rows :
                          \/ q = r
                          \/ TextLess(r.name, q.name)
                          \/ (r.name = q.name /\ r.id < q.id)
         IN  <<first>> \o OrderByName(rows \ {first})

\* get_custom_foods(user_id): the user's rows, ORDER BY name
get_custom_foods(table, u) ==
    OrderByName({table[i] : i \in {j \in 1..Len(table) : table[j].user_id = u}})

\* x LIKE '%q%' (q free of % and _): case-insensitive containment
Like(x, q) == Contains(Lower(x), Lower(q))

\* find_custom_food(user_id, query): the rows that qualify, in table order;
\* LIMIT 1 takes the first, None is << >>
find_custom_food_any_user(table, u, query) ==
    LET q == Lower(query)
        hit == SelectSeq(table, LAMBDA r : Like(r.name, q) \/ Like(r.aliases, q))
    IN  IF hit = << >> THEN << >> ELSE <<Head(hit)>>

find_custom_food(table, u, query) ==
    LET q == Lower(query)
        hit == SelectSeq(table, LAMBDA r : r.user_id = u /\ (Like(r.name, q) \/ Like(r.aliases, q)))
    IN  IF hit = << >> THEN << >> ELSE <<Head(hit)>>

\* delete_custom_food whose DELETE has the clause WHERE id = ? only
delete_custom_food_any_user(table, u, food_id) ==
    [table |-> SelectSeq(table, LAMBDA r : r.id # food_id),
     ok |-> \E i \in 1..Len(table) : table[i].id = food_id]

\* delete_custom_food(user_id, food_id): [table, ok]
delete_custom_food(table, u, food_id) ==
    [table |-> SelectSeq(table, LAMBDA r : ~(r.id = food_id /\ r.user_id = u)),
     ok |-> \E i \in 1..Len(table) : table[i].id = food_id /\ table[i].user_id = u]

\* update_custom_food whose UPDATE has the clause WHERE user_id = ? only
update_custom_food_of_user(table, u, food_id, field, value) ==
    LET stored == IF field \in {"name", "aliases"} THEN Lower(value) ELSE value
        touched == {i \in 1..Len(table) : table[i].user_id = u}
    IN  [table |-> [i \in 1..Len(table) |->
                        IF i \in touched THEN [table[i] EXCEPT ![field] = stored] ELSE table[i]],
         ok |-> touched # {}]

\* update_custom_food(user_id, food_id, **{field: value}): [table, ok]
update_custom_food(table, u, food_id, field, value) ==
    LET stored == IF field \in {"name", "aliases"} THEN Lower(value) ELSE value
        touched == {i \in 1..Len(table) : table[i].id = food_id /\ table[i].user_id = u}
    IN  [table |-> [i \in 1..Len(table) |->
                        IF i \in touched THEN [table[i] EXCEPT ![field] = stored] ELSE table[i]],
         ok |-> touched # {}]

\* get_user_settings(user_id): [table, row]; a missing row is inserted with
\* the column defaults
get_user_settings(table, u) ==
    IF u \in DOMAIN table THEN [table |-> table, row |-> table[u]]
    ELSE [table |-> [v \in DOMAIN table \cup {u} |-> IF v = u THEN DefaultSettings ELSE table[v]],
          row |-> DefaultSettings]

\* update_user_settings(user_id, **{field: value}): [table, ok]
update_user_settings(table, u, field, value) ==
    IF field \in {"goal_calories", "goal_protein", "goal_fat", "goal_carbs"}
    THEN [table |-> get_user_settings(table, u).table, ok |-> TRUE]
    ELSE IF field \notin {"language", "timezone", "day_end_hour"}
    THEN [table |-> table, ok |-> FALSE]
    ELSE LET present == get_user_settings(table, u).table
         IN  [table |-> [present EXCEPT ![u] = [present[u] EXCEPT ![field] = value]],
              ok |-> TRUE]

-----------------------------------------------------------------------------
(* src/ai_service.py: the two calls to the model backend.  What the        *)
(* backend did is [kind] or [kind |-> "ok", content]: the connection       *)
(* failed, the request timed out, the status was an error, the body had no *)
(* 'choices', or the message content arrived.  A content is [json |->      *)
(* FALSE] when it is not valid JSON (after _extract_json has removed a     *)
(* markdown fence) and [json |-> TRUE, value] when it denotes a value.     *)

\* The exception that session.post, raise_for_status or
\* result["choices"][0]["message"]["content"] raises for the outcome.
PostRaises(reply) ==
    CASE reply.kind = "connection_error" -> "ConnectionError"
      [] reply.kind = "timeout" -> "Timeout"
      [] reply.kind = "http_error" -> "HTTPError"
      [] reply.kind = "bad_body" -> "KeyError"
      [] OTHER -> NoException

\* the subclasses of requests.RequestException among them
RequestExceptions == {"ConnectionError", "Timeout", "HTTPError"}

\* json.loads(content)
Loads(content) ==
    IF content.json THEN [raised |-> NoException, value |-> content.value]
    ELSE [raised |-> "JSONDecodeError", value |-> JNull]

\* {"action": "add_food", "food_description": text}
FallbackIntent(text) == JObj([action |-> JStr("add_food"), food_description |-> JText(text)])

\* The try block of detect_intent(text, user_id) for a user id that is not 0:
\* [raised, intent, memory].
detect_intent_try(mem, text, u, reply) ==
    LET posted == PostRaises(reply)
        loaded == Loads(reply.content)
    IN  IF posted # NoException
        THEN [raised |-> posted, intent |-> JNull, memory |-> mem]
        ELSE IF loaded.raised # NoException
        THEN [raised |-> loaded.raised, intent |-> JNull, memory |-> mem]
        ELSE IF loaded.value.t # "obj"
        THEN [raised |-> "AttributeError", intent |-> JNull, memory |-> mem]
        ELSE [raised |-> NoException, intent |-> loaded.value,
              memory |-> add_to_memory(mem, u, "user", text,
                                       [intent |-> Get(loaded.value, "action", JNull)])]

\* detect_intent without its except clause
detect_intent_reraise(mem, text, u, reply) == detect_intent_try(mem, text, u, reply)

\* detect_intent(text, user_id): [raised, intent, memory]
detect_intent(mem, text, u, reply) ==
    LET tried == detect_intent_try(mem, text, u, reply)
    IN  IF tried.raised # NoException
        THEN [raised |-> NoException, intent |-> FallbackIntent(text), memory |-> mem]
        ELSE tried

\* notes="Из сохранённых продуктов ✓"
SavedFoodsNote == "saved_foods"

Unknown == <<"U", "n", "k", "n", "o", "w", "n">>

\* NutritionAnalysis(items=[], totals 0, error=...), and with items
FailedAnalysis(items, error) ==
    [items |-> items, total_calories |-> JNum(0), total_protein |-> JNum(0),
     total_fat |-> JNum(0), total_carbs |-> JNum(0), notes |-> JNull, error |-> JStr(error)]

\* NutritionItem(...) as from_dict builds it from one element of 'items'
FromItem(item) ==
    [name |-> Get(item, "name", JText(Unknown)), grams |-> Get(item, "grams", JNum(0)),
     calories |-> Get(item, "calories", JNum(0)), protein |-> Get(item, "protein", JNum(0)),
     fat |-> Get(item, "fat", JNum(0)), carbs |-> Get(item, "carbs", JNum(0))]

\* NutritionAnalysis.from_dict(data): [raised, analysis]; 'items' that is
\* not a list of dicts, or 'total' that is not a dict, has no .get
from_dict(data) ==
    IF data.t # "obj"
    THEN [raised |-> NoException, analysis |-> FailedAnalysis(<< >>, "Invalid response format")]
    ELSE LET items == Get(data, "items", JList(<< >>))
             total == Get(data, "total", JObj(<< >>))
         IN  IF items.t # "list" \/ (\E i \in 1..Len(items.v) : items.v[i].t # "obj")
             THEN [raised |-> "AttributeError", analysis |-> JNull]
             ELSE IF total.t # "obj"
             THEN [raised |-> "AttributeError", analysis |-> JNull]
             ELSE [raised |-> NoException,
                   analysis |-> [items |-> [i \in 1..Len(items.v) |-> FromItem(items.v[i])],
                                 total_calories |-> Get(total, "calories", JNum(0)),
                                 total_protein |-> Get(total, "protein", JNum(0)),
                                 total_fat |-> Get(total, "fat", JNum(0)),
                                 total_carbs |-> Get(total, "carbs", JNum(0)),
                                 notes |-> Get(data, "notes", JNull),
                                 error |-> Get(data, "error", JNull)]]

\* The model-based path of analyze(text, ...): the NutritionAnalysis returned.
analyze_estimate(text, reply) ==
    LET posted == PostRaises(reply)
        loaded == Loads(reply.content)
        built == from_dict(loaded.value)
        zero == [name |-> JText(FirstN(text, 50)), grams |-> JNum(0), calories |-> JNum(0),
                 protein |-> JNum(0), fat |-> JNum(0), carbs |-> JNum(0)]
    IN  IF posted \in RequestExceptions THEN FailedAnalysis(<< >>, "API error")
        ELSE IF posted # NoException THEN FailedAnalysis(<< >>, "Error")
        ELSE IF loaded.raised # NoException THEN FailedAnalysis(<<zero>>, "JSON parse error")
        ELSE IF built.raised # NoException THEN FailedAnalysis(<< >>, "Error")
        ELSE built.analysis

RECURSIVE ItemSum(_, _)
ItemSum(items, field) ==
    IF items = << >> THEN 0 ELSE Head(items)[field] + ItemSum(Tail(items), field)

\* The NutritionAnalysis made of the matched custom items.
FromSavedFoods(custom_items) ==
    [items |-> custom_items,
     total_calories |-> JNum(ItemSum(custom_items, "calories")),
     total_protein |-> JNum(ItemSum(custom_items, "protein")),
     total_fat |-> JNum(ItemSum(custom_items, "fat")),
     total_carbs |-> JNum(ItemSum(custom_items, "carbs")),
     notes |-> JStr(SavedFoodsNote), error |-> JNull]

\* analyze that asks the model whatever the matcher found
analyze_estimate_first(text, table, u, reply) ==
    Only({[analysis |-> IF Truthy(analyze_estimate(text, reply).error) /\ custom_items # << >>
                        THEN FromSavedFoods(custom_items) ELSE analyze_estimate(text, reply),
           calls |-> <<"get_custom_foods", "llm_analyze">>] :
          custom_items \in {check_custom_foods(text, get_custom_foods(table, u))}})

\* analyze(text, repo, user_id) with a repository and a user id that is
\* not 0: [analysis, calls], calls being the collaborators called, in order
analyze(text, table, u, reply) ==
    Only({IF custom_items # << >>
          THEN [analysis |-> FromSavedFoods(custom_items), calls |-> <<"get_custom_foods">>]
          ELSE [analysis |-> analyze_estimate(text, reply),
                calls |-> <<"get_custom_foods", "llm_analyze">>] :
          custom_items \in {check_custom_foods(text, get_custom_foods(table, u))}})

-----------------------------------------------------------------------------
(* src/handlers.py: a text turn.  The handlers are operators on the world  *)
(* w = [memory, entries, foods, settings] and return                       *)
(*   [w, calls, replies, raised, analysis, edit, summary]:                 *)
(* the world they leave, the collaborators they called in order, the texts *)
(* they put into the processing message, the exception that left them and  *)
(* what the analysis, the edit resolution or the summary query did.  A     *)
(* reply is a record of its kind and of the values formatted into it; the  *)
(* memory keeps the reply (the code keeps its first 200 or 300             *)
(* characters).                                                            *)

Result(w, calls, replies, raised) ==
    [w |-> w, calls |-> calls, replies |-> replies, raised |-> raised,
     analysis |-> [ran |-> FALSE], edit |-> [ran |-> FALSE], summary |-> [ran |-> FALSE]]

\* self.ai.add_bot_response_to_memory(user_id, response, extra)
Remember(w, u, response, extra) ==
    [w EXCEPT !.memory = add_to_memory(w.memory, u, "bot", response, extra)]

\* _get_user_lang(user_id): [w, lang]
get_user_lang(w, u) ==
    LET got == get_user_settings(w.settings, u)
    IN  [w |-> [w EXCEPT !.settings = got.table], lang |-> got.row.language]

\* "❌ Произошла ошибка. Попробуй ещё раз."
ErrorMsg == [kind |-> "error"]

\* int(x) and f"{x:.1f}" of _format_analysis_response accept a number
Formats(analysis) ==
    /\ analysis.total_calories.t = "num"
    /\ analysis.total_protein.t = "num"
    /\ analysis.total_fat.t = "num"
    /\ analysis.total_carbs.t = "num"

TotalsOf(analysis) ==
    [calories |-> analysis.total_calories, protein |-> analysis.total_protein,
     fat |-> analysis.total_fat, carbs |-> analysis.total_carbs]

\* _process_food_text that saves the entry before it looks at analysis.error
process_food_text_save_first(w, u, text, reply) ==
    Only({[Result([w EXCEPT !.entries = save_entry(w.entries, u, text, a.analysis.items,
                                                   TotalsOf(a.analysis))],
                  a.calls \o <<"save_entry">>,
                  <<[kind |-> "analysis_error", reason |-> a.analysis.error]>>, NoException)
              EXCEPT !.analysis = [ran |-> TRUE, text |-> text, result |-> a.analysis]] :
          a \in {analyze(text, w.foods, u, reply)}})

\* _process_food_text from the point at which analyze has returned a
food_analysed(w, u, text, a) ==
    LET an == a.analysis
        ran == [ran |-> TRUE, text |-> text, result |-> a.analysis]
    IN  IF Truthy(an.error)
        THEN [Result(w, a.calls, <<[kind |-> "analysis_error", reason |-> an.error]>>,
                     NoException)
                EXCEPT !.analysis = ran]
        ELSE Only({
            IF ~Formats(an)
            THEN [Result(Remember(saved, u, ErrorMsg, [type |-> "error"]),
                         a.calls \o <<"save_entry">>, <<ErrorMsg>>, NoException)
                    EXCEPT !.analysis = ran]
            ELSE Only({
                [Result(Remember(saved, u, response,
                                 [type |-> "food_logged", calories |-> an.total_calories]),
                        a.calls \o <<"save_entry", "get_daily_summary">>, <<response>>,
                        NoException)
                    EXCEPT !.analysis = ran] :
                response \in {[kind |-> "logged", items |-> an.items,
                               totals |-> TotalsOf(an), notes |-> an.notes,
                               daily |-> get_daily_summary(saved.entries, u,
                                             Strftime(ServerNow), DefaultTimezone,
                                             DefaultDayEndHour).calories]}}) :
            saved \in {[w EXCEPT !.entries = save_entry(w.entries, u, text, an.items,
                                                        TotalsOf(an))]}})

\* _process_food_text without its except clause: the TypeError of
\* _format_analysis_response leaves the handler
process_food_text_reraise(w, u, text, reply) ==
    Only({IF ~Truthy(a.analysis.error) /\ ~Formats(a.analysis)
          THEN Result(w, a.calls \o <<"save_entry">>, << >>, "TypeError")
          ELSE food_analysed(w, u, text, a) :
          a \in {analyze(text, w.foods, u, reply)}})

\* _process_food_text(update, user_id, text, processing_msg)
process_food_text(w, u, text, reply) ==
    Only({food_analysed(w, u, text, a) : a \in {analyze(text, w.foods, u, reply)}})

\* The rows _format_daily_report renders: entries[:5] of the rows ordered
\* by timestamp, latest first.
Rendered(day) ==
    SelectSeq(day, LAMBDA r :
        Cardinality({i \in 1..Len(day) :
                        \/ day[i].timestamp > r.timestamp
                        \/ (day[i].timestamp = r.timestamp /\ day[i].id > r.id)}) < 5)

\* _show_today(update, user_id, processing_msg)
show_today(w, u) ==
    Only({Only({
        LET text == [kind |-> "daily_report", summary |-> summary,
                     lines |-> [i \in 1..Len(day) |-> day[i].id]]
            calls == <<"get_daily_summary", "get_day_entries">>
            asked == [ran |-> TRUE, day |-> "today", date |-> today_str, shown |-> summary]
        IN  IF \E i \in 1..Len(day) : day[i].total_calories.t # "num"
            THEN [Result(w, calls, << >>, "TypeError") EXCEPT !.summary = asked]
            ELSE [Result(Remember(w, u, text, [type |-> "show_today"]), calls, <<text>>,
                         NoException)
                    EXCEPT !.summary = asked] :
        summary \in {get_daily_summary(w.entries, u, today_str, DefaultTimezone,
                                       DefaultDayEndHour)},
        day \in {Rendered(get_day_entries(w.entries, u, today_str))}}) :
      today_str \in {Strftime(ServerNow)}})

\* _show_yesterday(update, user_id, processing_msg)
show_yesterday(w, u) ==
    Only({Only({
        LET text == [kind |-> "yesterday_report", summary |-> summary]
            asked == [ran |-> TRUE, day |-> "yesterday", date |-> yesterday_str,
                      shown |-> summary]
        IN  [Result(Remember(w, u, text, [type |-> "show_yesterday"]),
                    <<"get_daily_summary">>, <<text>>, NoException)
                EXCEPT !.summary = asked] :
        summary \in {get_daily_summary(w.entries, u, yesterday_str, DefaultTimezone,
                                       DefaultDayEndHour)}}) :
      yesterday_str \in {Strftime(ServerNow - MinutesPerDay)}})

\* _delete_last_entry(update, user_id, processing_msg)
delete_last(w, u) ==
    Only({Only({
        LET msg == [kind |-> IF deleted.ok THEN "delete_last_success" ELSE "delete_last_none",
                    lang |-> l.lang]
        IN  Result(Remember([l.w EXCEPT !.entries = deleted.table], u, msg,
                            [type |-> IF deleted.ok THEN "delete_last" ELSE "error"]),
                   <<"get_user_settings", "delete_last_entry">>, <<msg>>, NoException) :
        deleted \in {delete_last_entry(l.w.entries, u)}}) :
      l \in {get_user_lang(w, u)}})

\* _show_my_foods(update, user_id, processing_msg)
show_my_foods(w, u) ==
    LET mine == get_custom_foods(w.foods, u)
        text == [kind |-> "my_foods", foods |-> mine]
    IN  IF mine = << >>
        THEN Result(w, <<"get_custom_foods">>, <<[kind |-> "no_foods"]>>, NoException)
        ELSE Result(Remember(w, u, text, [type |-> "show_foods"]), <<"get_custom_foods">>,
                    <<text>>, NoException)

\* _show_settings(update, user_id, processing_msg)
show_settings(w, u) ==
    LET l == get_user_lang(w, u)
        got == get_user_settings(l.w.settings, u)
        text == [kind |-> "settings", lang |-> l.lang, row |-> got.row]
    IN  Result(Remember(l.w, u, text, [type |-> "show_settings"]),
               <<"get_user_settings", "get_user_settings">>, <<text>>, NoException)

\* word.lower().strip() for the words of the model (the Russian ones are
\* written in Latin letters)
LowerWord(word) ==
    CASE word = "EN" -> "en"
      [] word = "Kalorii" -> "kalorii"
      [] OTHER -> word

\* lang_map.get(language, language)
LangMap(language) ==
    CASE language \in {"ru", "russkij", "rus", "russian"} -> "ru"
      [] language \in {"en", "english", "anglijskij", "angl"} -> "en"
      [] OTHER -> language

\* _change_language(update, user_id, language, processing_msg)
change_language(w, u, language) ==
    LET l == get_user_lang(w, u)
        normalized_lang == LangMap(LowerWord(language.v))
        updated == update_user_settings(l.w.settings, u, "language", normalized_lang)
        error_msg == [kind |-> "language_error", lang |-> l.lang]
        success_msg == [kind |-> "language_changed", lang |-> normalized_lang]
    IN  IF language.t # "str"
        THEN Result(l.w, <<"get_user_settings">>, << >>, "AttributeError")
        ELSE IF normalized_lang \notin {"ru", "en"}
        THEN Result(Remember(l.w, u, error_msg, [type |-> "error"]), <<"get_user_settings">>,
                    <<error_msg>>, NoException)
        ELSE Result(Remember([l.w EXCEPT !.settings = updated.table], u, success_msg,
                             [type |-> "change_language", language |-> normalized_lang]),
                    <<"get_user_settings", "update_user_settings">>, <<success_msg>>,
                    NoException)

\* field_mapping.get(...) with 'calories' as the value for an unknown word
FieldMapping_calories(field) == "calories"


\* field_mapping.get(field, field)
FieldMapping(field) ==
    CASE field \in {"kalorii", "kalorij", "kkal"} -> "calories"
      [] field \in {"belki", "belok"} -> "protein"
      [] field \in {"zhiry", "zhir"} -> "fat"
      [] field \in {"uglevody", "uglevod"} -> "carbs"
      [] field \in {"grammy", "gramm", "ves"} -> "grams"
      [] field \in {"nazvanie", "imya"} -> "name"
      [] field \in {"psevdonimy", "aliasy"} -> "aliases"
      [] OTHER -> field

valid_fields == {"calories", "protein", "fat", "carbs", "grams", "name", "aliases"}

\* re.findall(r'\d+(?:\.\d+)?', s)[0] as <<whole, fraction>>, << >> when
\* there is no digit in s
FirstNumber(s) ==
    IF \A i \in 1..Len(s) : ~IsDigit(s[i]) THEN << >>
    ELSE Only({Only({
            LET dotted == e + 2 <= Len(s) /\ s[e + 1] = "." /\ IsDigit(s[e + 2])
            IN  <<SubSeq(s, b, e),
                  IF ~dotted THEN << >>
                  ELSE SubSeq(s, e + 2, CHOOSE i \in (e + 2)..Len(s) :
                                           /\ \A j \in (e + 2)..i : IsDigit(s[j])
                                           /\ (i = Len(s) \/ ~IsDigit(s[i + 1])))>> :
            e \in {CHOOSE i \in b..Len(s) : /\ \A j \in b..i : IsDigit(s[j])
                                            /\ (i = Len(s) \/ ~IsDigit(s[i + 1]))}}) :
          b \in {CHOOSE i \in 1..Len(s) : IsDigit(s[i]) /\ \A j \in 1..(i - 1) : ~IsDigit(s[j])}})

\* float(numbers[0]) in tenths, for a number of at most one decimal
FloatTenths(number) ==
    10 * IntOf(number[1]) + (IF number[2] = << >> THEN 0 ELSE DigitValue(number[2][1]))

\* How _edit_food_voice ended, with the hints it was given
edit_resolution(edit_params, outcome) ==
    [ran |-> TRUE, outcome |-> outcome, params |-> edit_params]

\* _edit_food_voice from update_custom_food on: the row food was found, the
\* field is a valid one and the value was parsed
edit_apply(w, u, edit_params, food, food_name, field_en, parsed_value) ==
    Only({
        IF updated.ok
        THEN Only({
            LET success_msg == [kind |-> "edit_done", food |-> updated_food,
                                field |-> field_en, value |-> parsed_value]
            IN  [Result(Remember([w EXCEPT !.foods = updated.table], u, success_msg,
                                 [type |-> "edit_food", food_name |-> updated_food.name,
                                  field |-> field_en, value |-> parsed_value]),
                        <<"find_custom_food", "update_custom_food", "find_custom_food">>,
                        <<success_msg>>, NoException)
                    EXCEPT !.edit = edit_resolution(edit_params, "Updated")] :
            updated_food \in {Only({IF again = << >> THEN food ELSE again[1] :
                                    again \in {find_custom_food(updated.table, u,
                                                  IF field_en # "name" THEN food_name
                                                  ELSE parsed_value)}})}})
        ELSE [Result(Remember([w EXCEPT !.foods = updated.table], u,
                              [kind |-> "edit_failed"], [type |-> "error"]),
                     <<"find_custom_food", "update_custom_food">>,
                     <<[kind |-> "edit_failed"]>>, NoException)
                EXCEPT !.edit = edit_resolution(edit_params, "UpdateFailed")] :
        updated \in {update_custom_food(w.foods, u, food.id, field_en, parsed_value)}})

\* _edit_food_voice from find_custom_food on: the three hints are present
edit_hinted(w, u, edit_params, food_name, field, value) ==
    Only({
        IF food = << >>
        THEN [Result(Remember(w, u, [kind |-> "food_not_found", food_name |-> food_name],
                              [type |-> "error", food_name |-> food_name]),
                     <<"find_custom_food">>,
                     <<[kind |-> "food_not_found", food_name |-> food_name]>>, NoException)
                EXCEPT !.edit = edit_resolution(edit_params, "FoodNotFound")]
        ELSE Only({
            IF field_en \notin valid_fields
            THEN [Result(w, <<"find_custom_food">>,
                         <<[kind |-> "unknown_field", field |-> field]>>, NoException)
                    EXCEPT !.edit = edit_resolution(edit_params, "UnknownField")]
            ELSE IF field_en \notin {"calories", "protein", "fat", "carbs", "grams"}
            THEN edit_apply(w, u, edit_params, food[1], food_name, field_en, Strip(value))
            ELSE Only({
                IF number = << >>
                THEN [Result(Remember(w, u, [kind |-> "value_not_parsed", value |-> value],
                                      [type |-> "error"]),
                             <<"find_custom_food">>,
                             <<[kind |-> "value_not_parsed", value |-> value]>>,
                             NoException)
                        EXCEPT !.edit = edit_resolution(edit_params, "UnparsableValue")]
                ELSE edit_apply(w, u, edit_params, food[1], food_name, field_en,
                                IF field_en = "grams" THEN IntOf(number[1])
                                ELSE FloatTenths(number)) :
                number \in {FirstNumber(value)}}) :
            field_en \in {FieldMapping(LowerWord(field))}}) :
        food \in {find_custom_food(w.foods, u, food_name)}})

\* _edit_food_voice(update, user_id, edit_params, processing_msg)
edit_food_voice(w, u, edit_params) ==
    IF edit_params.t # "obj"
    THEN Result(w, << >>, << >>, "AttributeError")
    ELSE IF \/ ~Truthy(Get(edit_params, "food_name", JText(<< >>)))
            \/ ~Truthy(Get(edit_params, "field", JStr("")))
            \/ ~Truthy(Get(edit_params, "value", JText(<< >>)))
    THEN [Result(Remember(w, u, [kind |-> "edit_not_understood"], [type |-> "error"]),
                 << >>, <<[kind |-> "edit_not_understood"]>>, NoException)
            EXCEPT !.edit = edit_resolution(edit_params, "MissingHint")]
    ELSE edit_hinted(w, u, edit_params, Get(edit_params, "food_name", JText(<< >>)).v,
                     Get(edit_params, "field", JStr("")).v,
                     Get(edit_params, "value", JText(<< >>)).v)

\* The handler handle_text selects for a parsed intent: [route, result].
Route(w, u, text, intent, reply) ==
    LET action == Get(intent, "action", JNull)
        date_type == Get(intent, "date", JStr("today"))
        edit_params == Get(intent, "edit_params", JObj(<< >>))
        lang_params == Get(intent, "language_params", JObj(<< >>))
        food_description == Get(intent, "food_description", JText(text))
    IN  CASE IsStr(action, "show_summary") ->
                IF IsStr(date_type, "yesterday")
                THEN [route |-> "show_yesterday", result |-> show_yesterday(w, u)]
                ELSE [route |-> "show_today", result |-> show_today(w, u)]
          [] IsStr(action, "delete_last") ->
                [route |-> "delete_last", result |-> delete_last(w, u)]
          [] IsStr(action, "show_foods") ->
                [route |-> "show_foods", result |-> show_my_foods(w, u)]
          [] IsStr(action, "edit_food") ->
                [route |-> "edit_food", result |-> edit_food_voice(w, u, edit_params)]
          [] IsStr(action, "show_settings") ->
                [route |-> "show_settings", result |-> show_settings(w, u)]
          [] IsStr(action, "change_language") ->
                IF lang_params.t # "obj"
                THEN [route |-> "change_language",
                      result |-> Result(w, << >>, << >>, "AttributeError")]
                ELSE [route |-> "change_language",
                      result |-> change_language(w, u, Get(lang_params, "language", JStr("ru")))]
          [] IsStr(action, "add_food") ->
                [route |-> "add_food",
                 result |-> process_food_text(w, u, food_description.v, reply)]
          [] OTHER ->
                [route |-> "default_food", result |-> process_food_text(w, u, text, reply)]

\* What handle_text did: [log, w], the record of the turn and the world it
\* leaves.
turn_log(u, text, cls, ana, detected, routed, final) ==
    [w |-> final.w, log |->
        [op |-> "text", user |-> u, text |-> text, cls |-> cls,
         ana |-> IF \E i \in 1..Len(final.calls) : final.calls[i] = "llm_analyze"
                 THEN ana ELSE [kind |-> "unused"],
         detect |-> [raised |-> detected.raised, intent |-> detected.intent],
         route |-> routed.route, caught |-> routed.result.raised,
         calls |-> <<"llm_intent">> \o final.calls, replies |-> final.replies,
         raised |-> final.raised, analysis |-> final.analysis, edit |-> final.edit,
         summary |-> final.summary]]

\* The except clause of handle_text: the text is processed as food after
\* the selected handler (result first) raised.
food_fallback(first, u, text, ana) ==
    Only({[fallback EXCEPT !.calls = first.calls \o fallback.calls,
                           !.replies = first.replies \o fallback.replies,
                           !.edit = first.edit,
                           !.summary = first.summary] :
          fallback \in {process_food_text(first.w, u, text, ana)}})

\* handle_text from the point at which detect_intent has returned
intent_detected(w, u, text, cls, ana, detected) ==
    Only({Only({turn_log(u, text, cls, ana, detected, routed, final) :
                final \in {IF routed.result.raised = NoException THEN routed.result
                           ELSE food_fallback(routed.result, u, text, ana)}}) :
          routed \in {IF detected.raised # NoException
                      THEN [route |-> "none",
                            result |-> Result([w EXCEPT !.memory = detected.memory],
                                              << >>, << >>, detected.raised)]
                      ELSE Route([w EXCEPT !.memory = detected.memory], u, text,
                                 detected.intent, ana)}})

\* handle_text(update, context) for a message of user u with the text raw
handle_text(w, u, raw, cls, ana) ==
    Only({intent_detected(w, u, Strip(raw), cls, ana, detected) :
          detected \in {detect_intent(w.memory, Strip(raw), u, cls)}})

\* "[Для голосовых сообщений нужен GROQ_API_KEY или OPENAI_API_KEY]", cut
\* down to "[nuzhen GROQ_API_KEY]"
NoCredentialsText ==
    <<"[", "n", "u", "z", "h", "e", "n", " ", "G", "R", "O", "Q", "_", "A", "P", "I", "_",
      "K", "E", "Y", "]">>

\* "Ошибка"
Oshibka == <<"O", "s", "h", "i", "b", "k", "a">>

\* f"[Ошибка распознавания голоса: {str(e)}]", cut down to "[Oshibka: e]"
RecognitionErrorText == <<"[">> \o Oshibka \o <<":", " ", "e", "]">>

\* transcribe_audio(audio_path) for what the transcription backends did:
\* kind "text" when one of them returned the text heard, "no_credentials"
\* when the request to GROQ was not made or failed and there is no
\* OPENAI_API_KEY, "recognition_error" when the request to OpenAI raised.
transcribe_audio(heard) ==
    CASE heard.kind = "no_credentials" -> NoCredentialsText
      [] heard.kind = "recognition_error" -> RecognitionErrorText
      [] OTHER -> Strip(heard.text)

\* transcribed_text.startswith("[") and "Ошибка" in transcribed_text
transcription_failed(transcribed_text) ==
    /\ transcribed_text # << >>
    /\ transcribed_text[1] = "["
    /\ Contains(transcribed_text, Oshibka)

\* What handle_voice did when it returned before detect_intent: [log, w].
voice_unheard(w, u, heard, calls, reply) ==
    [w |-> w, log |->
        [op |-> "voice", user |-> u, heard |-> heard, text |-> << >>,
         cls |-> [kind |-> "unused"], ana |-> [kind |-> "unused"],
         detect |-> [raised |-> NoException, intent |-> JNull],
         route |-> "none", caught |-> NoException, calls |-> calls, replies |-> <<reply>>,
         raised |-> NoException, analysis |-> [ran |-> FALSE], edit |-> [ran |-> FALSE],
         summary |-> [ran |-> FALSE]]]

\* What handle_voice did with the text it passed to detect_intent: [log, w].
voice_log(u, heard, text, cls, ana, detected, routed, final) ==
    [w |-> final.w, log |->
        [op |-> "voice", user |-> u, heard |-> heard, text |-> text, cls |-> cls,
         ana |-> IF \E i \in 1..Len(final.calls) : final.calls[i] = "llm_analyze"
                 THEN ana ELSE [kind |-> "unused"],
         detect |-> [raised |-> detected.raised, intent |-> detected.intent],
         route |-> routed.route, caught |-> routed.result.raised,
         calls |-> <<"transcribe_audio", "llm_intent">> \o final.calls,
         replies |-> final.replies, raised |-> final.raised, analysis |-> final.analysis,
         edit |-> final.edit, summary |-> final.summary]]

\* "❌ Ошибка обработки голосового сообщения. Попробуй отправить текстом."
VoiceProcessingError == [kind |-> "voice_processing_error"]

\* handle_voice from the point at which detect_intent has returned: the
\* except clause of the inner try replies with the error text
voice_detected(w, u, heard, text, cls, ana, detected) ==
    Only({Only({voice_log(u, heard, text, cls, ana, detected, routed, final) :
                final \in {IF routed.result.raised = NoException THEN routed.result
                           ELSE [routed.result EXCEPT
                                    !.replies = @ \o <<VoiceProcessingError>>,
                                    !.raised = NoException]}}) :
          routed \in {Route([w EXCEPT !.memory = detected.memory], u, text,
                            detected.intent, ana)}})

\* handle_voice from the point at which transcribe_audio has returned
voice_transcribed(w, u, heard, transcribed_text, cls, ana) ==
    IF transcription_failed(transcribed_text)
    THEN voice_unheard(w, u, heard, <<"transcribe_audio">>,
                       [kind |-> "voice_not_recognized", text |-> transcribed_text])
    ELSE Only({voice_detected(w, u, heard, transcribed_text, cls, ana, detected) :
               detected \in {detect_intent(w.memory, transcribed_text, u, cls)}})

\* handle_voice(update, context) for a voice message of user u
handle_voice(w, u, heard, cls, ana) ==
    IF heard.kind = "download_error"
    THEN voice_unheard(w, u, heard, << >>, [kind |-> "voice_download_error"])
    ELSE voice_transcribed(w, u, heard, transcribe_audio(heard), cls, ana)

-----------------------------------------------------------------------------
(* Text turns.  The repository is a database that outlives the process: it *)
(* starts with the foods and the settings row earlier commands stored.     *)
(* The Application handles one update at a time, so a turn is one step.    *)

\* "sup", sent with a blank in front
TextSoup == <<" ", "s", "u", "p">>

\* "2 banan"
TextBanan == <<"2", " ", "b", "a", "n", "a", "n">>

Utterances == {TextBanan, TextSoup}

FoodSoup ==
    [id |-> 2, user_id |-> 2, name |-> <<"s", "u", "p">>, aliases |-> << >>,
     grams |-> 300, calories |-> 900, protein |-> 50, fat |-> 30, carbs |-> 120]

InitialFoods == <<FoodBanan, FoodSoup>>

InitialSettings ==
    [u \in {1} |-> [language |-> "ru", timezone |-> "Europe/Moscow", day_end_hour |-> 4]]

\* 2 June 2024, 00:30 UTC
ClockStart == 153 * MinutesPerDay + 30

Banan == <<"b", "a", "n", "a", "n">>

EditParams(food_name, field, value) ==
    JObj([food_name |-> JText(food_name), field |-> JStr(field), value |-> JText(value)])

Intent(action) == JObj([action |-> JStr(action)])

\* The values a classifier reply can denote.
IntentValues ==
    { JList(<< >>),
      JObj(<< >>),
      Intent("help"),
      Intent("add_food"),
      JObj([action |-> JStr("add_food"), food_description |-> JText(Banan)]),
      Intent("show_summary"),
      JObj([action |-> JStr("show_summary"), date |-> JStr("today")]),
      JObj([action |-> JStr("show_summary"), date |-> JStr("yesterday")]),
      JObj([action |-> JStr("show_summary"), date |-> JStr("week")]),
      Intent("delete_last"),
      Intent("show_foods"),
      Intent("show_settings"),
      Intent("edit_food"),
      JObj([action |-> JStr("edit_food"), edit_params |-> JNull]),
      JObj([action |-> JStr("edit_food"),
            edit_params |-> EditParams(Banan, "Kalorii", <<"1", "6", "0", " ", "k">>)]),
      JObj([action |-> JStr("edit_food"),
            edit_params |-> EditParams(Banan, "hren", <<"1", "6", "0">>)]),
      JObj([action |-> JStr("edit_food"),
            edit_params |-> EditParams(Banan, "belki", <<"a", "b", "c">>)]),
      JObj([action |-> JStr("edit_food"),
            edit_params |-> EditParams(Banan, "ves", <<"1", "2", ".", "5">>)]),
      JObj([action |-> JStr("edit_food"),
            edit_params |-> EditParams(Banan, "nazvanie", <<" ", "B", "k", " ">>)]),
      Intent("change_language"),
      JObj([action |-> JStr("change_language"), language_params |-> JNull]),
      JObj([action |-> JStr("change_language"),
            language_params |-> JObj([language |-> JNull])]),
      JObj([action |-> JStr("change_language"),
            language_params |-> JObj([language |-> JStr("EN")])]),
      JObj([action |-> JStr("change_language"),
            language_params |-> JObj([language |-> JStr("de")])]) }

BackendFailures ==
    {[kind |-> k] : k \in {"connection_error", "timeout", "http_error", "bad_body"}}

Content(value) == [kind |-> "ok", content |-> [json |-> TRUE, value |-> value]]

NotJson == [kind |-> "ok", content |-> [json |-> FALSE]]

\* What the backend can do with the classification request.
IntentReplies == BackendFailures \cup {NotJson} \cup {Content(v) : v \in IntentValues}

Estimate(calories) ==
    [items |-> JList(<<JObj([name |-> JText(<<"s", "u", "p">>), grams |-> JNum(250),
                            calories |-> calories])>>),
     total |-> JObj([calories |-> calories, protein |-> JNum(61), fat |-> JNum(40),
                     carbs |-> JNum(150)])]

\* The values an analysis reply can denote.
AnalysisValues ==
    { JList(<< >>),
      JObj(Estimate(JNum(120))),
      JObj(Estimate(JNull)),
      JObj([error |-> JStr("not food")]),
      JObj([items |-> JList(<< >>), total |-> JNull]) }

\* What the backend can do with the analysis request.
AnalysisReplies == BackendFailures \cup {NotJson} \cup {Content(v) : v \in AnalysisValues}

World == [memory |-> memory, entries |-> entries, foods |-> foods, settings |-> settings]

\* One text message handled from its arrival to its last reply.
TextTurn(u, raw, cls, ana) ==
    \E handled \in {handle_text(World, u, raw, cls, ana)} :
        /\ turn' = handled.log
        /\ memory' = handled.w.memory
        /\ entries' = handled.w.entries
        /\ foods' = handled.w.foods
        /\ settings' = handled.w.settings
        /\ turns' = turns + 1
        /\ UNCHANGED <<tz, appends, mt, clock, serverTz>>

MaxTurns == 2

Init ==
    /\ memory = << >>
    /\ appends = << >>
    /\ entries = [rows |-> << >>, lastrowid |-> 0]
    /\ foods = InitialFoods
    /\ settings = InitialSettings
    /\ clock = ClockStart
    /\ serverTz = "UTC"
    /\ turn = [op |-> "none"]
    /\ turns = 0
    /\ TzIdle
    /\ MtIdle

\* The outcomes of the analysis request that can be told apart in the turn:
\* all of them when the turn sends the request, one when it does not.
AnalysisAsked(u, raw, cls) ==
    IF \E probe \in {handle_text(World, u, raw, cls, NotJson)} :
          \E i \in 1..Len(probe.log.calls) : probe.log.calls[i] = "llm_analyze"
    THEN AnalysisReplies ELSE {NotJson}

HandleText(u, raw, cls) ==
    /\ turns < MaxTurns
    /\ \E ana \in AnalysisAsked(u, raw, cls) : TextTurn(u, raw, cls, ana)

Next == \E u \in Users, raw \in Utterances, cls \in IntentReplies : HandleText(u, raw, cls)

Spec == Init /\ [][Next]_vars

-----------------------------------------------------------------------------
(* Properties of a text turn (under Spec).                                 *)

\* The turn called the collaborator.
Called(log, name) == \E i \in 1..Len(log.calls) : log.calls[i] = name

\* The classification request failed in one of the ways C1 lists.
ClassifierFailed(cls) ==
    \/ cls.kind \in {"connection_error", "timeout", "http_error"}
    \/ (cls.kind = "ok" /\ ~cls.content.json)

\* C1: detect_intent never raises, and whenever the backend call raises,
\* times out, returns an error status or returns content that is not valid
\* JSON, it returns the intent add_food whose description is the utterance
\* it was given, unchanged.
C1_FailOpen ==
    (turn.op = "text") =>
        /\ turn.detect.raised = NoException
        /\ ClassifierFailed(turn.cls) =>
              /\ turn.detect.intent.t = "obj"
              /\ DOMAIN turn.detect.intent.v = {"action", "food_description"}
              /\ IsStr(turn.detect.intent.v["action"], "add_food")
              /\ turn.detect.intent.v["food_description"].t = "text"
              /\ turn.detect.intent.v["food_description"].v = turn.text

C1_Witness ==
    /\ turn.op = "text"
    /\ turn.cls.kind = "timeout"
    /\ turn.text = <<"s", "u", "p">>
    /\ turn.detect.raised = NoException
    /\ turn.detect.intent = FallbackIntent(<<"s", "u", "p">>)

\* C7: in an analysis, whenever the custom-food matcher returns at least one
\* item the model backend is not called and the result is exactly the
\* matched items, marked as coming from the saved foods and free of error;
\* the model is called only when the matcher returned nothing.
C7_SavedDataWins ==
    [][(turn'.op = "text" /\ turn'.analysis.ran) =>
          LET matched == check_custom_foods(turn'.analysis.text,
                                            get_custom_foods(foods, turn'.user))
          IN  /\ matched # << >> =>
                    /\ ~Called(turn', "llm_analyze")
                    /\ turn'.analysis.result.items = matched
                    /\ IsStr(turn'.analysis.result.notes, SavedFoodsNote)
                    /\ ~Truthy(turn'.analysis.result.error)
              /\ Called(turn', "llm_analyze") => matched = << >>]_vars

C7_Witness ==
    /\ turn.op = "text"
    /\ turn.user = 1
    /\ turn.analysis.ran
    /\ turn.analysis.text = TextBanan
    /\ ~Called(turn, "llm_analyze")
    /\ Len(turn.analysis.result.items) = 1
    /\ turn.analysis.result.items[1].grams = 240
    /\ IsStr(turn.analysis.result.notes, SavedFoodsNote)

\* The three hints of an edit, when the intent carries all of them.
Hinted(params) ==
    /\ params.t = "obj"
    /\ {"food_name", "field", "value"} \subseteq DOMAIN params.v
    /\ Truthy(params.v["food_name"])
    /\ Truthy(params.v["field"])
    /\ Truthy(params.v["value"])

\* Some saved food of user u matches the name hint by name or alias.
FoodMatches(table, u, hint) ==
    \E i \in 1..Len(table) :
        /\ table[i].user_id = u
        /\ (Like(table[i].name, hint) \/ Like(table[i].aliases, hint))

\* The way resolution of the edit fails, "none" when it does not.
EditFailure(table, u, params) ==
    LET canonical == FieldMapping(LowerWord(params.v["field"].v))
    IN  CASE ~Hinted(params) -> "none"
          [] ~FoodMatches(table, u, params.v["food_name"].v) -> "FoodNotFound"
          [] canonical \notin valid_fields -> "UnknownField"
          [] /\ canonical \in {"calories", "protein", "fat", "carbs", "grams"}
             /\ ~\E i \in 1..Len(params.v["value"].v) : IsDigit(params.v["value"].v[i])
                -> "UnparsableValue"
          [] OTHER -> "none"

\* C9: when resolution of a natural-language edit fails (no saved food of
\* the user matches the name hint, the field hint maps to no canonical field,
\* or a numeric field has no numeric token in its value), update_custom_food
\* is not called and the saved foods are unchanged by the turn.
C9_FailedEditNoMutation ==
    [][(turn'.op = "text" /\ turn'.route = "edit_food") =>
          LET params == Get(turn'.detect.intent, "edit_params", JObj(<< >>))
              failure == EditFailure(foods, turn'.user, params)
          IN  failure # "none" =>
                    /\ turn'.edit.ran
                    /\ turn'.edit.outcome = failure
                    /\ ~Called(turn', "update_custom_food")
                    /\ foods' = foods]_vars

C9_Witness ==
    /\ turn.op = "text"
    /\ turn.route = "edit_food"
    /\ turn.user = 1
    /\ turn.edit.ran
    /\ turn.edit.outcome = "UnparsableValue"
    /\ ~Called(turn, "update_custom_food")
    /\ foods = InitialFoods

\* The analysis request failed in one of the ways C10 lists.
AnalysisFailed(ana) ==
    \/ ana.kind \in {"connection_error", "timeout", "http_error", "bad_body"}
    \/ (ana.kind = "ok" /\ ~ana.content.json)
    \/ (ana.kind = "ok" /\ ana.content.json /\ ana.content.value.t # "obj")

\* C10: when the analysis of a food utterance fails (backend error,
\* unparseable nutrition JSON, a reply that is not a JSON object), the turn
\* saves no entry (the stored entries are the same after the turn as before)
\* and its reply is the error message carrying the reason.
C10_FailedAnalysisNotSaved ==
    [][(/\ turn'.op = "text"
        /\ turn'.analysis.ran
        /\ Called(turn', "llm_analyze")
        /\ AnalysisFailed(turn'.ana)) =>
          /\ ~Called(turn', "save_entry")
          /\ entries' = entries
          /\ turn'.replies # << >>
          /\ turn'.replies[Len(turn'.replies)].kind = "analysis_error"
          /\ Truthy(turn'.replies[Len(turn'.replies)].reason)
          /\ turn'.replies[Len(turn'.replies)].reason = turn'.analysis.result.error]_vars

C10_Witness ==
    /\ turn.op = "text"
    /\ turn.route = "add_food"
    /\ turn.analysis.ran
    /\ turn.ana = NotJson
    /\ ~Called(turn, "save_entry")
    /\ turn.replies = <<[kind |-> "analysis_error", reason |-> JStr("JSON parse error")]>>
    /\ entries.rows = << >>

\* The turns held for user u, none when the user has no list yet.
TurnsOf(mem, u) == IF u \in DOMAIN mem THEN mem[u] ELSE << >>

\* What a text turn must add to the user's memory when every classifier
\* invocation records the utterance and every reply records a bot turn.
DueTurns(log) ==
    <<[role |-> "user", content |-> log.text]>>
        \o [i \in 1..Len(log.replies) |-> [role |-> "bot", content |-> log.replies[i]]]

\* C11: every classifier invocation for a user, successful or fallen back,
\* appends the utterance as a user turn to that user's memory, and every
\* reply of the turn appends a bot turn with that reply, in this order.
C11_EveryTurnRemembered ==
    [][(turn'.op = "text") =>
          LET got == TurnsOf(memory', turn'.user)
              due == LastN(TurnsOf(memory, turn'.user) \o DueTurns(turn'), max_memory_size)
          IN  /\ Len(got) = Len(due)
              /\ \A i \in 1..Len(got) :
                    /\ got[i].role = due[i].role
                    /\ got[i].content = due[i].content]_vars

\* The classifier's reply was parsed into a JSON object.
ParsedIntent(cls) == cls.kind = "ok" /\ cls.content.json /\ cls.content.value.t = "obj"

\* The action-specific fields of a parsed result are absent or malformed.
MalformedParams(intent) ==
    LET action == Get(intent, "action", JNull)
    IN  \/ /\ IsStr(action, "show_summary")
           /\ ~IsStr(Get(intent, "date", JNull), "today")
           /\ ~IsStr(Get(intent, "date", JNull), "yesterday")
        \/ /\ IsStr(action, "edit_food")
           /\ Get(intent, "edit_params", JNull).t # "obj"
        \/ /\ IsStr(action, "change_language")
           /\ \/ Get(intent, "language_params", JNull).t # "obj"
              \/ Get(Get(intent, "language_params", JNull), "language", JNull).t # "str"

\* The handler the 'action' field of such a result selects.
SelectedRoute(intent) ==
    LET action == Get(intent, "action", JNull)
    IN  CASE IsStr(action, "show_summary") -> "show_today"
          [] IsStr(action, "edit_food") -> "edit_food"
          [] IsStr(action, "change_language") -> "change_language"

\* C15: for every parsed classifier result whose action-specific fields are
\* absent or malformed, routing does not raise and the action the 'action'
\* field selects is the one executed (show_summary for today; no food is
\* processed in place of an edit or a language change).
C15_BestEffortParams ==
    (/\ turn.op = "text"
     /\ ParsedIntent(turn.cls)
     /\ MalformedParams(turn.cls.content.value)) =>
        /\ turn.caught = NoException
        /\ turn.route = SelectedRoute(turn.cls.content.value)
        /\ ~turn.analysis.ran

\* C16: every text turn ends with a reply, whatever the backend did with
\* the classification and the analysis requests and whatever action was
\* classified: the handler has sent the reply of the selected or fallback
\* action or an error message, and no exception leaves handle_text.
C16_EveryTurnReplies ==
    (turn.op = "text") =>
        /\ turn.raised = NoException
        /\ turn.replies # << >>
        /\ "kind" \in DOMAIN turn.replies[Len(turn.replies)]

C16_Witness ==
    /\ turn.op = "text"
    /\ turn.cls.kind = "timeout"
    /\ turn.ana = Content(JObj(Estimate(JNull)))
    /\ Called(turn, "save_entry")
    /\ turn.raised = NoException
    /\ turn.replies = <<ErrorMsg>>

\* The localized alias table of the field hints, with the hint's case
\* folded: the canonical field, "none" for a word that is not in it.
CanonicalField(hint) ==
    CASE hint \in {"kalorii", "Kalorii", "kalorij", "kkal", "calories"} -> "calories"
      [] hint \in {"belki", "belok", "protein"} -> "protein"
      [] hint \in {"zhiry", "zhir", "fat"} -> "fat"
      [] hint \in {"uglevody", "uglevod", "carbs"} -> "carbs"
      [] hint \in {"grammy", "gramm", "ves", "grams"} -> "grams"
      [] hint \in {"nazvanie", "imya", "name"} -> "name"
      [] hint \in {"psevdonimy", "aliasy", "aliases"} -> "aliases"
      [] OTHER -> "none"

\* The columns of custom_foods in which the table after differs from before.
ChangedColumns(before, after) ==
    {c \in {"name", "aliases", "grams", "calories", "protein", "fat", "carbs", "id",
            "user_id"} : \E i \in 1..Len(before) : after[i][c] # before[i][c]}

\* C17: an edit whose three hints are present and whose food is found
\* resolves the field hint, whatever its case, through the alias table to one
\* of the seven canonical fields; a hint that maps to none of them ends as
\* UnknownField without an update, an update is only issued for, and only
\* changes, the canonical field of the hint, and the hint "Kalorii" with the
\* value "160 k" sets calories to 160.0.
C17_FieldNormalised ==
    [][(/\ turn'.op = "text"
        /\ turn'.edit.ran
        /\ Hinted(turn'.edit.params)
        /\ FoodMatches(foods, turn'.user, turn'.edit.params.v["food_name"].v)) =>
          LET hint == turn'.edit.params.v["field"].v
              value == turn'.edit.params.v["value"].v
              canonical == CanonicalField(hint)
          IN  /\ Len(foods') = Len(foods)
              /\ canonical = "none" =>
                    /\ turn'.edit.outcome = "UnknownField"
                    /\ ~Called(turn', "update_custom_food")
                    /\ foods' = foods
              /\ Called(turn', "update_custom_food") =>
                    /\ canonical \in {"calories", "protein", "fat", "carbs", "grams",
                                      "name", "aliases"}
                    /\ ChangedColumns(foods, foods') \subseteq {canonical}
              /\ (hint = "Kalorii" /\ value = <<"1", "6", "0", " ", "k">>) =>
                    /\ turn'.edit.outcome = "Updated"
                    /\ \A i \in 1..Len(foods) :
                          (foods[i].user_id = turn'.user /\ foods[i].name = Banan) =>
                              foods'[i].calories = 1600]_vars

C17_Witness ==
    /\ turn.op = "text"
    /\ turn.user = 1
    /\ turn.edit.ran
    /\ turn.edit.outcome = "Updated"
    /\ turn.edit.params.v["field"].v = "Kalorii"
    /\ Called(turn, "update_custom_food")
    /\ foods[1].calories = 1600
    /\ ChangedColumns(InitialFoods, foods) = {"calories"}

\* The action a parsed classifier result names, "" when it names none.
ActionOf(intent) ==
    LET action == Get(intent, "action", JNull)
    IN  IF action.t = "str" THEN action.v ELSE ""

\* The actions that are not about logging food.
NonFoodActions ==
    {"show_summary", "show_foods", "show_settings", "change_language", "edit_food",
     "delete_last"}

\* C21: a text turn whose classified action is show_summary, show_foods,
\* show_settings, change_language, edit_food or delete_last saves no
\* nutrition entry (save_entry is not called in the turn),
\* whatever the shape of the intent's parameters and whether the action's
\* handler completes or raises.
C21_NonFoodNeverSaves ==
    (/\ turn.op = "text"
     /\ ParsedIntent(turn.cls)
     /\ ActionOf(turn.cls.content.value) \in NonFoodActions) =>
        ~Called(turn, "save_entry")

\* C25: after any sequence of intent-routed text turns the turns held for a
\* user alternate between the user and the bot: no two consecutive turns of
\* a user's memory have the same role, so the context rendered from them
\* consists of alternating user and bot lines.
C25_RolesAlternate ==
    \A u \in DOMAIN memory :
        \A i \in 1..(Len(memory[u]) - 1) : memory[u][i].role # memory[u][i + 1].role

\* The fixed action set the classifier's prompt names.
FixedActions == NonFoodActions \cup {"add_food", "help"}

\* C23: a turn whose classified action is help is answered with help and
\* neither invokes food analysis nor saves a nutrition entry; for every
\* action of the fixed set the handler selected is the one the action names.
C23_HelpIsHelp ==
    (/\ turn.op = "text"
     /\ ParsedIntent(turn.cls)
     /\ ActionOf(turn.cls.content.value) \in FixedActions) =>
        /\ turn.route \in
              IF ActionOf(turn.cls.content.value) = "show_summary"
              THEN {"show_today", "show_yesterday"}
              ELSE {ActionOf(turn.cls.content.value)}
        /\ ActionOf(turn.cls.content.value) = "help" =>
              /\ ~turn.analysis.ran
              /\ ~Called(turn, "llm_analyze")
              /\ ~Called(turn, "save_entry")
              /\ turn.replies[Len(turn.replies)].kind = "help"

-----------------------------------------------------------------------------
(* Text turns spread over time (SpecDay): food logged and summaries asked  *)
(* for around the end of a user's logical day, on a host in UTC or in New  *)
(* York.  User 1 has stored Europe/Moscow and day_end_hour 4; at           *)
(* ClockStart it is 03:30 on 2 June there.                                 *)

DayIntents ==
    { Content(Intent("add_food")),
      Content(JObj([action |-> JStr("show_summary"), date |-> JStr("today")])),
      Content(JObj([action |-> JStr("show_summary"), date |-> JStr("yesterday")])) }

OkEstimate == Content(JObj(Estimate(JNum(120))))

HostZones == {"UTC", "America/New_York"}

MaxDayTurns == 3

MaxTicks == 2

TickMinutes == MinutesPerHour \div 2

InitDay ==
    /\ memory = << >>
    /\ appends = << >>
    /\ entries = [rows |-> << >>, lastrowid |-> 0]
    /\ foods = InitialFoods
    /\ settings = InitialSettings
    /\ clock = ClockStart
    /\ serverTz \in HostZones
    /\ turn = [op |-> "none"]
    /\ turns = 0
    /\ TzIdle
    /\ MtIdle

HandleDayText(u, raw, cls) ==
    /\ turns < MaxDayTurns
    /\ TextTurn(u, raw, cls, OkEstimate)

\* Half an hour passes between two updates.
Tick ==
    /\ clock < ClockStart + MaxTicks * TickMinutes
    /\ clock' = clock + TickMinutes
    /\ UNCHANGED <<tz, memory, appends, mt, entries, foods, settings, serverTz, turn, turns>>

NextDay ==
    \/ \E u \in Users, raw \in Utterances, cls \in DayIntents : HandleDayText(u, raw, cls)
    \/ Tick

SpecDay == InitDay /\ [][NextDay]_vars

\* The settings stored for user u: the row, or the column defaults.
StoredSettings(u) == IF u \in DOMAIN settings THEN settings[u] ELSE DefaultSettings

\* The UTC instant at which a row of entries was logged.
LoggedAt(r) == CHOOSE i \in InstantsOfLocal(serverTz, r.timestamp) : TRUE

\* What get_daily_summary reports for a set of rows picked by Keeps.
SummaryOfRange(u, start, end) ==
    LET hit == SelectSeq(entries.rows, LAMBDA r : /\ r.user_id = u
                                                  /\ LoggedAt(r) >= start
                                                  /\ LoggedAt(r) < end)
    IN  [calories |-> SumOver(hit, "total_calories"), protein |-> SumOver(hit, "total_protein"),
         fat |-> SumOver(hit, "total_fat"), carbs |-> SumOver(hit, "total_carbs"),
         entries_count |-> Len(hit)]

SummaryOfDate(u, zone, h, date) ==
    LET hit == SelectSeq(entries.rows, LAMBDA r :
                    r.user_id = u /\ get_current_date_for_user(zone, h, LoggedAt(r)) = date)
    IN  [calories |-> SumOver(hit, "total_calories"), protein |-> SumOver(hit, "total_protein"),
         fat |-> SumOver(hit, "total_fat"), carbs |-> SumOver(hit, "total_carbs"),
         entries_count |-> Len(hit)]

\* C6: the totals a show_summary turn shows are those of the user's logical
\* date (today's, or yesterday's), computed from the user's stored timezone
\* and day_end_hour: the totals of the entries logged within the range
\* get_day_start_end gives for that date, or, reading "attributed" by the
\* entry's own logical date, of the entries whose logical date it is.
C6_SummaryOfLogicalDay ==
    (turn.op = "text" /\ turn.summary.ran) =>
        LET mine == StoredSettings(turn.user)
            date == get_relative_date(turn.summary.day, mine.timezone, mine.day_end_hour, clock)
            range == get_day_start_end(date, mine.timezone, mine.day_end_hour)
        IN  \/ turn.summary.shown = SummaryOfRange(turn.user, range[1], range[2])
            \/ turn.summary.shown = SummaryOfDate(turn.user, mine.timezone,
                                                  mine.day_end_hour, date)

\* C22: immediately after a turn has saved a food entry, the daily total of
\* the same reply includes that entry: the stored timestamp of the row lies
\* inside the range get_daily_summary queries for the date string the
\* handler passes (the host's date, with the default timezone and day end).
C22_SavedEntryCounted ==
    (/\ turn.op = "text"
     /\ Called(turn, "save_entry")
     /\ turn.replies[Len(turn.replies)].kind = "logged") =>
        LET saved == entries.rows[Len(entries.rows)]
            range == get_day_start_end(saved.date, DefaultTimezone, DefaultDayEndHour)
        IN  /\ range[1] <= saved.timestamp
            /\ saved.timestamp < range[2]
            /\ turn.replies[Len(turn.replies)].daily >= NumOf(saved.total_calories)

-----------------------------------------------------------------------------
(* _get_memory_context: the text handed to the classifier as context.  The *)
(* result is either the sentinel or "\n".join(lines), kept as the sequence *)
(* of its lines; a line f"{role}: {content}" is the pair of its two parts. *)

\* "(нет предыдущих сообщений)"
NoPreviousMessages == [kind |-> "no_previous_messages"]

\* msg["content"][:100]
ContentCut == 100

\* limit: int = 5
DefaultLimit == 5

\* "Пользователь" if msg["role"] == "user" else "Бот"
RoleLabel(role) == IF role = "user" THEN "Polzovatel" ELSE "Bot"

ContextLine(msg) == [role |-> RoleLabel(msg.role), content |-> FirstN(msg.content, ContentCut)]

\* _get_memory_context that takes the first turns of the list
get_memory_context_oldest(mem, u, limit) ==
    IF u \notin DOMAIN mem \/ TurnsOf(mem, u) = << >> THEN NoPreviousMessages
    ELSE [kind |-> "lines",
          lines |-> [i \in 1..Len(FirstN(mem[u], limit)) |->
                        ContextLine(FirstN(mem[u], limit)[i])]]

\* _get_memory_context(user_id, limit) for limit >= 1
get_memory_context(mem, u, limit) ==
    IF u \notin DOMAIN mem \/ TurnsOf(mem, u) = << >> THEN NoPreviousMessages
    ELSE [kind |-> "lines",
          lines |-> [i \in 1..Len(LastN(mem[u], limit)) |->
                        ContextLine(LastN(mem[u], limit)[i])]]

(* Turns recorded and contexts read (SpecCtx).  The k-th turn recorded for *)
(* user u has a content that starts with the digits of u and k, so that    *)
(* turns can be told apart, followed by a padding that makes it 2, 100 or  *)
(* 101 characters long.                                                    *)

DigitChar(n) == CHOOSE c \in Digits : DigitValue(c) = n

Paddings == {0, ContentCut - 2, ContentCut - 1}

CtxContent(u, k, pad) == <<DigitChar(u), DigitChar(k)>> \o [i \in 1..pad |-> "x"]

\* Five short turns already recorded for user 1.
FiveTurns ==
    [k \in 1..DefaultLimit |->
        [role |-> IF k % 2 = 1 THEN "user" ELSE "bot", content |-> CtxContent(1, k, 0),
         extra |-> "-"]]

Limits == {1, DefaultLimit, DefaultLimit + 4}

MaxRecords == 3

InitCtx ==
    /\ \/ memory = << >> /\ appends = << >>
       \/ memory = <<FiveTurns>> /\ appends = <<DefaultLimit>>
    /\ TzIdle
    /\ MtIdle
    /\ BotIdle

RecordTurn(u, role, pad) ==
    /\ turns < MaxRecords
    /\ memory' = add_to_memory(memory, u, role, CtxContent(u, Appended(u) + 1, pad), "-")
    /\ appends' = CountAppend(u)
    /\ turn' = [op |-> "record", user |-> u]
    /\ turns' = turns + 1
    /\ UNCHANGED <<tz, mt, entries, foods, settings, clock, serverTz>>

GetMemoryContext(u, limit) ==
    /\ turn' = [op |-> "context", user |-> u, limit |-> limit,
                text |-> get_memory_context(memory, u, limit)]
    /\ UNCHANGED <<tz, memory, appends, mt, entries, foods, settings, clock, serverTz, turns>>

NextCtx ==
    \/ \E u \in Users, role \in Roles, pad \in Paddings : RecordTurn(u, role, pad)
    \/ \E u \in Users, limit \in Limits : GetMemoryContext(u, limit)

SpecCtx == InitCtx /\ [][NextCtx]_vars

\* C12: recording a turn for a user leaves the memory of every other user
\* as it was (the users for whom nothing was recorded in a step keep their
\* lists), and the context window read for a user holds only turns that
\* were recorded for that user.
C12_NoCrossUserLeak ==
    /\ [][\A b \in Users :
            (Appended(b)' = Appended(b)) =>
                /\ (b \in DOMAIN memory') = (b \in DOMAIN memory)
                /\ TurnsOf(memory', b) = TurnsOf(memory, b)]_vars
    /\ []((turn.op = "context" /\ turn.text # NoPreviousMessages) =>
            \A i \in 1..Len(turn.text.lines) :
                turn.text.lines[i].content[1] = DigitChar(turn.user))

C12_Witness ==
    /\ turn.op = "context"
    /\ turn.user = 2
    /\ turn.text # NoPreviousMessages
    /\ Len(turn.text.lines) = 2
    /\ Len(TurnsOf(memory, 1)) = DefaultLimit + 1
    /\ Appended(2) = 2

-----------------------------------------------------------------------------
(* The /settings command.  context.args is [cmd, word, value]: the first   *)
(* argument, and of the arguments after it the one read as a word (the     *)
(* language, the timezone, the goal's field; "" when there is none) and    *)
(* the one read as a number (the hour, the goal's value; << >> when there  *)
(* is none).  A word is a symbol that does not read as a number.           *)

\* int(s) of one argument: [ok, n], ok = FALSE for ValueError
ParseInt(s) ==
    LET digits == IF s # << >> /\ s[1] \in {"-", "+"} THEN Tail(s) ELSE s
    IN  IF digits = << >> \/ \E i \in 1..Len(digits) : ~IsDigit(digits[i])
        THEN [ok |-> FALSE, n |-> 0]
        ELSE [ok |-> TRUE,
              n |-> IF s[1] = "-" THEN 0 - IntOf(digits) ELSE IntOf(digits)]

\* float(s) of one argument written as a decimal raises no ValueError
ParsesAsFloat(s) ==
    LET digits == IF s # << >> /\ s[1] \in {"-", "+"} THEN Tail(s) ELSE s
        dots == {i \in 1..Len(digits) : digits[i] = "."}
    IN  /\ Cardinality(dots) <= 1
        /\ \E i \in 1..Len(digits) : IsDigit(digits[i])
        /\ \A i \in 1..Len(digits) : IsDigit(digits[i]) \/ digits[i] = "."

\* the day_end branch accepting every integer
day_end_hour_any(value) == [ok |-> ParseInt(value).ok, hour |-> ParseInt(value).n]

\* hour = int(args_text.split()[-1]); if 0 <= hour <= 23: [ok, hour]
day_end_hour(value) ==
    [ok |-> ParseInt(value).ok /\ 0 <= ParseInt(value).n /\ ParseInt(value).n <= 23,
     hour |-> ParseInt(value).n]

\* field_map[field]
GoalColumn(field) ==
    CASE field = "calories" -> "goal_calories"
      [] field = "protein" -> "goal_protein"
      [] field = "fat" -> "goal_fat"
      [] field = "carbs" -> "goal_carbs"

\* The settings screen sent when no change was made.
settings_screen(w, u, row) ==
    Result(w, <<"get_user_settings">>, <<[kind |-> "settings", row |-> row]>>, NoException)

\* A change made by update_user_settings(user_id, field=value) and its reply
settings_change(w, u, field, value, reply) ==
    Result([w EXCEPT !.settings = update_user_settings(w.settings, u, field, value).table],
           <<"get_user_settings", "update_user_settings">>, <<reply>>, NoException)

\* settings(update, context) of user u
settings_command(w, u, args) ==
    Only({
        LET w1 == [w EXCEPT !.settings = got.table]
            lang == got.row.language
            new_lang == LowerWord(args.word)
            last == IF args.value # << >> THEN args.value ELSE <<"x">>
        IN  IF args.cmd \in {"lang", "language"} /\ args.word # "" /\ new_lang \in {"ru", "en"}
            THEN settings_change(w1, u, "language", new_lang,
                                 [kind |-> "language_changed", lang |-> new_lang])
            ELSE IF args.cmd = "timezone" /\ args.word # ""
            THEN settings_change(w1, u, "timezone", args.word,
                                 [kind |-> "timezone_changed", lang |-> lang,
                                  timezone |-> args.word])
            ELSE IF args.cmd = "day_end" /\ (args.word # "" \/ args.value # << >>)
                    /\ day_end_hour(last).ok
            THEN settings_change(w1, u, "day_end_hour", day_end_hour(last).hour,
                                 [kind |-> "day_end_changed", lang |-> lang,
                                  hour |-> day_end_hour(last).hour])
            ELSE IF /\ args.cmd = "goal" /\ args.word # "" /\ args.value # << >>
                    /\ args.word \in {"calories", "protein", "fat", "carbs"}
                    /\ ParsesAsFloat(args.value)
            THEN settings_change(w1, u, GoalColumn(args.word), args.value,
                                 [kind |-> "goal_changed", lang |-> lang,
                                  field |-> args.word, value |-> args.value])
            ELSE settings_screen(w1, u, got.row) :
        got \in {get_user_settings(w.settings, u)}})

(* Settings commands of two users, one after another (SpecSettings).       *)

Args(cmd, word, value) == [cmd |-> cmd, word |-> word, value |-> value]

SettingsArgs ==
    { Args("", "", << >>),
      Args("lang", "EN", << >>),
      Args("lang", "de", << >>),
      Args("timezone", "Europe/London", << >>),
      Args("timezone", "Mars/Phobos", << >>),
      Args("day_end", "", << >>),
      Args("day_end", "noon", << >>),
      Args("day_end", "", <<"0">>),
      Args("day_end", "", <<"7">>),
      Args("day_end", "", <<"2", "3">>),
      Args("day_end", "", <<"2", "4">>),
      Args("day_end", "", <<"-", "1">>),
      Args("day_end", "", <<"4", ".", "5">>),
      Args("goal", "calories", <<"2", "5", "0", "0">>),
      Args("goal", "calories", <<"x">>),
      Args("goal", "weight", <<"7", "0">>) }

MaxCommands == 3

InitSettings ==
    /\ settings = InitialSettings
    /\ memory = << >>
    /\ appends = << >>
    /\ entries = [rows |-> << >>, lastrowid |-> 0]
    /\ foods = InitialFoods
    /\ clock = ClockStart
    /\ serverTz = "UTC"
    /\ turn = [op |-> "none"]
    /\ turns = 0
    /\ TzIdle
    /\ MtIdle

SettingsCommand(u, args) ==
    /\ turns < MaxCommands
    /\ \E done \in {settings_command(World, u, args)} :
          /\ settings' = done.w.settings
          /\ turn' = [op |-> "settings", user |-> u, args |-> args, calls |-> done.calls,
                      replies |-> done.replies]
    /\ turns' = turns + 1
    /\ UNCHANGED <<tz, memory, appends, mt, entries, foods, clock, serverTz>>

NextSettings == \E u \in Users, args \in SettingsArgs : SettingsCommand(u, args)

SpecSettings == InitSettings /\ [][NextSettings]_vars

\* The argument is the decimal writing of an integer in 0..23.
WritesHour(value) ==
    /\ value # << >>
    /\ \A i \in 1..Len(value) : IsDigit(value[i])
    /\ IntOf(value) <= 23

\* C19: after any sequence of settings commands every stored day_end_hour is
\* an integer in 0..23, and a '/settings day_end h' whose h is not an
\* integer in 0..23 changes none of that user's settings (nor anyone
\* else's).
C19_DayEndHourInRange ==
    /\ [](\A u \in DOMAIN settings : settings[u].day_end_hour \in 0..23)
    /\ [][(/\ turn'.op = "settings"
           /\ turn'.args.cmd = "day_end"
           /\ ~WritesHour(turn'.args.value)) =>
             /\ \A u \in Users : StoredSettings(u)' = StoredSettings(u)
             /\ ~Called(turn', "update_user_settings")]_vars

C19_Witness ==
    /\ turn.op = "settings"
    /\ turn.user = 2
    /\ turn.args = Args("day_end", "", <<"2", "4">>)
    /\ ~Called(turn, "update_user_settings")
    /\ settings[1].day_end_hour = 23
    /\ settings[2].day_end_hour = 7

-----------------------------------------------------------------------------
(* Turns in flight at once (SpecTurns).  A handler is a coroutine on the   *)
(* one thread of the event loop: it gives way to another update only at an *)
(* await.  handle_text awaits the "thinking" message, then detect_intent   *)
(* runs without an await (requests is blocking) and records the user turn  *)
(* when the classifier's reply was parsed; the selected handler awaits the *)
(* edit of the processing message and then calls                           *)
(* add_bot_response_to_memory, again without an await.  turn holds the     *)
(* updates in flight: task id -> [user, pc].  The k-th turn recorded for a *)
(* user carries the content k and, as extra, the task that recorded it.    *)

MaxUpdates == 3

\* Nine turns recorded for user 1 by earlier updates (task 0).
NineTurns ==
    [k \in 1..(max_memory_size - 1) |->
        [role |-> IF k % 2 = 1 THEN "user" ELSE "bot", content |-> k, extra |-> [task |-> 0]]]

InFlight == DOMAIN turn.at

InitTurns ==
    /\ \/ memory = << >> /\ appends = << >>
       \/ memory = <<NineTurns>> /\ appends = <<max_memory_size - 1>>
    /\ entries = [rows |-> << >>, lastrowid |-> 0]
    /\ foods = << >>
    /\ settings = << >>
    /\ clock = 0
    /\ serverTz = "UTC"
    /\ turn = [op |-> "tasks", at |-> << >>]
    /\ turns = 0
    /\ TzIdle
    /\ MtIdle

\* handle_text up to its first await: the update of user u is task turns + 1
Thinking(u) ==
    /\ turns < MaxUpdates
    /\ turns' = turns + 1
    /\ turn' = [turn EXCEPT !.at = [t \in InFlight \cup {turns + 1} |->
                                        IF t = turns + 1 THEN [user |-> u, pc |-> "detect"]
                                        ELSE turn.at[t]]]
    /\ UNCHANGED <<tz, memory, appends, mt, entries, foods, settings, clock, serverTz>>

\* detect_intent and the selected handler up to its await of edit_text; the
\* user turn is recorded when the classifier's reply was parsed
DetectIntent(t, parsed) ==
    /\ t \in InFlight
    /\ turn.at[t].pc = "detect"
    /\ \E u \in {turn.at[t].user} :
          IF parsed
          THEN /\ memory' = add_to_memory(memory, u, "user", Appended(u) + 1, [task |-> t])
               /\ appends' = CountAppend(u)
          ELSE UNCHANGED <<memory, appends>>
    /\ turn' = [turn EXCEPT !.at[t].pc = "reply"]
    /\ UNCHANGED <<tz, mt, entries, foods, settings, clock, serverTz, turns>>

\* The handler after its await of edit_text: add_bot_response_to_memory on
\* the paths that record the reply, and the end of the coroutine
Replied(t, recorded) ==
    /\ t \in InFlight
    /\ turn.at[t].pc = "reply"
    /\ \E u \in {turn.at[t].user} :
          IF recorded
          THEN /\ memory' = add_to_memory(memory, u, "bot", Appended(u) + 1, [task |-> t])
               /\ appends' = CountAppend(u)
          ELSE UNCHANGED <<memory, appends>>
    /\ turn' = [turn EXCEPT !.at = [s \in InFlight \ {t} |-> turn.at[s]]]
    /\ UNCHANGED <<tz, mt, entries, foods, settings, clock, serverTz, turns>>

NextTurns ==
    \/ \E u \in Users : Thinking(u)
    \/ \E t \in 1..MaxUpdates, parsed \in BOOLEAN : DetectIntent(t, parsed)
    \/ \E t \in 1..MaxUpdates, recorded \in BOOLEAN : Replied(t, recorded)

SpecTurns == InitTurns /\ [][NextTurns]_vars

\* The positions at which task t's turn of the role stands in a list.
Recorded(lst, t, role) == {i \in 1..Len(lst) : lst[i].extra.task = t /\ lst[i].role = role}

\* C24: under any interleaving of the turns of one user or of several, each
\* record operation takes effect atomically on that user's list: in every
\* reachable state the list holds at most 10 turns, they are the most
\* recently recorded ones in the order in which they were recorded (none
\* lost, none twice), a step changes the lists of no user but the one it
\* records for, and a task's user turn stands before its bot turn.
C24_AtomicRecord ==
    /\ [](\A u \in DOMAIN memory :
            LET n == Appended(u)
                kept == IF n > max_memory_size THEN max_memory_size ELSE n
            IN  /\ Len(memory[u]) <= 10
                /\ Len(memory[u]) = kept
                /\ \A i \in 1..kept : memory[u][i].content = n - kept + i
                /\ \A t \in 1..MaxUpdates, role \in Roles :
                      Cardinality(Recorded(memory[u], t, role)) <= 1
                /\ \A t \in 1..MaxUpdates :
                      \A i \in Recorded(memory[u], t, "user"), j \in Recorded(memory[u], t, "bot") :
                          i < j)
    /\ [][\A u \in Users :
            \/ TurnsOf(memory', u) = TurnsOf(memory, u)
            \/ /\ Appended(u)' = Appended(u) + 1
               /\ \A v \in Users \ {u} : TurnsOf(memory', v) = TurnsOf(memory, v)
               /\ TurnsOf(memory', u) =
                     LastN(Append(TurnsOf(memory, u),
                                  TurnsOf(memory', u)[Len(TurnsOf(memory', u))]),
                           max_memory_size)]_vars

\* Two updates of user 1 interleaved: the turns of task 2 were recorded
\* between the user turn and the bot turn of task 1, and the list was trimmed.
C24_Witness ==
    /\ 1 \in DOMAIN memory
    /\ Appended(1) > max_memory_size
    /\ Len(memory[1]) = max_memory_size
    /\ \E i \in Recorded(memory[1], 1, "user"), j \in Recorded(memory[1], 2, "user"),
          k \in Recorded(memory[1], 1, "bot") : i < j /\ j < k

-----------------------------------------------------------------------------
(* Voice turns (SpecVoice): the repository and the users of the text       *)
(* turns; a voice message is downloaded, transcribed and routed.           *)

\* What the download and the transcription backends can do with a message.
Hearings ==
    {[kind |-> "download_error"], [kind |-> "no_credentials"], [kind |-> "recognition_error"]}
        \cup {[kind |-> "text", text |-> t] : t \in Utterances}

\* The classifier replies tried for a voice message.
VoiceIntents ==
    { [kind |-> "connection_error"],
      NotJson,
      Content(Intent("add_food")),
      Content(Intent("help")),
      Content(Intent("show_summary")),
      Content(Intent("delete_last")),
      Content(Intent("show_foods")),
      Content(Intent("show_settings")),
      Content(JObj([action |-> JStr("edit_food"), edit_params |-> JNull])),
      Content(JObj([action |-> JStr("edit_food"),
                    edit_params |-> EditParams(Banan, "Kalorii", <<"1", "6", "0", " ", "k">>)])),
      Content(JObj([action |-> JStr("change_language"), language_params |-> JNull])),
      Content(JObj([action |-> JStr("change_language"),
                    language_params |-> JObj([language |-> JStr("EN")])])) }

MaxVoiceTurns == 2

InitVoice ==
    /\ memory = << >>
    /\ appends = << >>
    /\ entries = [rows |-> << >>, lastrowid |-> 0]
    /\ foods = InitialFoods
    /\ settings = InitialSettings
    /\ clock = ClockStart
    /\ serverTz = "UTC"
    /\ turn = [op |-> "none"]
    /\ turns = 0
    /\ TzIdle
    /\ MtIdle

\* One voice message handled from its arrival to its last reply.
VoiceTurn(u, heard, cls, ana) ==
    \E handled \in {handle_voice(World, u, heard, cls, ana)} :
        /\ turn' = handled.log
        /\ memory' = handled.w.memory
        /\ entries' = handled.w.entries
        /\ foods' = handled.w.foods
        /\ settings' = handled.w.settings
        /\ turns' = turns + 1
        /\ UNCHANGED <<tz, appends, mt, clock, serverTz>>

\* The outcomes of the classification and analysis requests that can be told
\* apart in the turn: one when the turn does not send the request.
VoiceIntentAsked(heard) ==
    IF heard.kind = "download_error" \/ transcription_failed(transcribe_audio(heard))
    THEN {NotJson} ELSE VoiceIntents

VoiceAnalysisAsked(u, heard, cls) ==
    IF \E probe \in {handle_voice(World, u, heard, cls, NotJson)} :
          \E i \in 1..Len(probe.log.calls) : probe.log.calls[i] = "llm_analyze"
    THEN AnalysisReplies ELSE {NotJson}

HandleVoice(u, heard) ==
    /\ turns < MaxVoiceTurns
    /\ \E cls \in VoiceIntentAsked(heard) :
          \E ana \in VoiceAnalysisAsked(u, heard, cls) : VoiceTurn(u, heard, cls, ana)

NextVoice == \E u \in Users, heard \in Hearings : HandleVoice(u, heard)

SpecVoice == InitVoice /\ [][NextVoice]_vars

\* C26: a transcribed utterance is routed as the same utterance typed is:
\* for the same text, the same classifier result and the same outcomes of
\* the collaborators, handle_voice and handle_text select the same handler,
\* make the same calls and leave the repository and the conversation memory
\* in the same state, also when the selected handler raises.
C26_VoiceAsText ==
    [][(turn'.op = "voice" /\ Called(turn', "llm_intent")) =>
          \A ana \in IF turn'.ana.kind = "unused" THEN AnalysisReplies ELSE {turn'.ana} :
              \E typed \in {handle_text(World, turn'.user, turn'.text, turn'.cls, ana)} :
                  /\ typed.log.route = turn'.route
                  /\ typed.log.calls = Tail(turn'.calls)
                  /\ typed.w.memory = memory'
                  /\ typed.w.entries = entries'
                  /\ typed.w.foods = foods'
                  /\ typed.w.settings = settings']_vars

\* C27: a voice turn whose transcription did not succeed (transcribe_audio
\* returned the missing-credentials placeholder or the recognition-error
\* placeholder) is passed neither to the intent classifier nor to food
\* analysis and saves no entry.
C27_FailedTranscriptionStops ==
    (turn.op = "voice" /\ turn.heard.kind \in {"no_credentials", "recognition_error"}) =>
        /\ ~Called(turn, "llm_intent")
        /\ ~Called(turn, "get_custom_foods")
        /\ ~Called(turn, "llm_analyze")
        /\ ~Called(turn, "save_entry")
        /\ ~turn.analysis.ran

-----------------------------------------------------------------------------
(* The matcher and the order of the food list (under SpecMatch).           *)

\* The items returned for the food at position k of the list.
ItemsFor(k) ==
    {i \in 1..Len(mt.items) : /\ mt.items[i].name[1] = mt.foods[k].name
                              /\ mt.items[i].name[2] = mt.foods[k].grams}

\* C28: for each saved food the matcher yields at most one item per
\* utterance: one when the text contains the name, with the quantity
\* written before the name, whatever the aliases; else one for the first
\* alias in declaration order that the text contains, with the quantity
\* written before that alias; else none.  The items stand in the order of
\* the user's food list, which get_custom_foods returns ordered by name.
C28_OneItemPerFood ==
    (mt.op = "matched") =>
        LET t == Lower(mt.text)
        IN  /\ \A k \in 1..Len(mt.foods) :
                  LET food == mt.foods[k]
                      aliases == AliasList(food)
                      hits == {a \in 1..Len(aliases) : Contains(t, aliases[a])}
                  IN  /\ Cardinality(ItemsFor(k)) <= 1
                      /\ Contains(t, food.name) =>
                            \E i \in ItemsFor(k) :
                                mt.items[i].name[3] = ExpectedMultiplier(t, food.name)
                      /\ (~Contains(t, food.name) /\ hits # {}) =>
                            \E i \in ItemsFor(k) : \E a \in hits :
                                /\ \A b \in hits : a <= b
                                /\ mt.items[i].name[3] = ExpectedMultiplier(t, aliases[a])
                      /\ (~Contains(t, food.name) /\ hits = {}) => ItemsFor(k) = {}
            /\ \A i \in 1..Len(mt.items) : \E k \in 1..Len(mt.foods) : i \in ItemsFor(k)
            /\ \A k, l \in 1..Len(mt.foods) :
                  \A i \in ItemsFor(k), j \in ItemsFor(l) : k < l => i < j
            /\ \A i, j \in 1..Len(mt.items) :
                  i < j => TextLess(mt.items[i].name[1], mt.items[j].name[1])

\* "ab3a" against the foods ab (alias a), b and kk (aliases a, b): ab by its
\* name although "3a" names its alias, b by its name, kk by its first alias.
C28_Witness ==
    /\ mt.op = "matched"
    /\ mt.text = <<"a", "b", "3", "a">>
    /\ mt.foods = <<FoodAb, FoodB, FoodKk>>
    /\ Len(mt.items) = 3
    /\ mt.items[1].name = <<FoodAb.name, 100, 1>>
    /\ mt.items[2].name = <<FoodB.name, 50, 1>>
    /\ mt.items[3].name = <<FoodKk.name, 30, 3>>

-----------------------------------------------------------------------------
(* Edits in natural language (SpecEdit): text turns classified as          *)
(* edit_food with the three hints present, over a table in which the hint  *)
(* "banan" matches two foods of user 1 (one by name, one by alias) and a   *)
(* food of user 2.                                                         *)

\* "kk" with the alias "banan", of user 1
FoodKkBanan ==
    [id |-> 3, user_id |-> 1, name |-> <<"k", "k">>, aliases |-> Banan,
     grams |-> 30, calories |-> 99, protein |-> 1, fat |-> 2, carbs |-> 3]

\* "banan" of user 2
FoodBananOfTwo ==
    [id |-> 4, user_id |-> 2, name |-> Banan, aliases |-> << >>,
     grams |-> 100, calories |-> 890, protein |-> 11, fat |-> 3, carbs |-> 230]

EditedFoods == <<FoodBanan, FoodSoup, FoodKkBanan, FoodBananOfTwo>>

\* The classifier replies tried: edits of the food the hint "banan" finds.
EditIntents ==
    {Content(JObj([action |-> JStr("edit_food"), edit_params |-> params])) :
        params \in {EditParams(Banan, "Kalorii", <<"1", "6", "0", " ", "k">>),
                    EditParams(Banan, "ves", <<"1", "2", ".", "5">>),
                    EditParams(Banan, "belki", <<"a", "b", "c">>),
                    EditParams(Banan, "hren", <<"1", "6", "0">>),
                    EditParams(Banan, "nazvanie", <<" ", "B", "k", " ">>),
                    EditParams(<<"s", "u", "p">>, "zhiry", <<"2">>),
                    EditParams(<<"k", "k">>, "aliasy", <<"A", ",", "b">>)}}

MaxEdits == 2

InitEdit ==
    /\ memory = << >>
    /\ appends = << >>
    /\ entries = [rows |-> << >>, lastrowid |-> 0]
    /\ foods = EditedFoods
    /\ settings = InitialSettings
    /\ clock = ClockStart
    /\ serverTz = "UTC"
    /\ turn = [op |-> "none"]
    /\ turns = 0
    /\ TzIdle
    /\ MtIdle

EditTurn(u, cls) ==
    /\ turns < MaxEdits
    /\ TextTurn(u, TextSoup, cls, NotJson)

NextEdit == \E u \in Users, cls \in EditIntents : EditTurn(u, cls)

SpecEdit == InitEdit /\ [][NextEdit]_vars

\* The columns of custom_foods a natural-language edit can name.
EditableColumns == {"name", "aliases", "grams", "calories", "protein", "fat", "carbs"}

\* C29: a successful natural-language edit changes exactly the one resolved
\* canonical field of exactly the food that was found for that user: every
\* other field of that food (its id and owner included), every other saved
\* food of the user and of the other users, and all entries and settings are
\* as they were before the turn.
C29_EditFrame ==
    [][(/\ turn'.op = "text"
        /\ turn'.edit.ran
        /\ turn'.edit.outcome = "Updated") =>
          LET u == turn'.user
              canonical == CanonicalField(turn'.edit.params.v["field"].v)
              found == find_custom_food(foods, u, turn'.edit.params.v["food_name"].v)
          IN  /\ found # << >>
              /\ found[1].user_id = u
              /\ canonical \in EditableColumns
              /\ Len(foods') = Len(foods)
              /\ \A i \in 1..Len(foods) :
                    IF foods[i].id = found[1].id
                    THEN \A c \in DOMAIN foods[i] \ {canonical} : foods'[i][c] = foods[i][c]
                    ELSE foods'[i] = foods[i]
              /\ entries' = entries
              /\ settings' = settings]_vars

\* User 1 has set the grams of "banan" to 12: the food "kk", which the hint
\* matches by alias, and the "banan" of user 2 are as they were.
C29_Witness ==
    /\ turn.op = "text"
    /\ turn.user = 1
    /\ turn.edit.ran
    /\ turn.edit.outcome = "Updated"
    /\ turn.edit.params.v["field"].v = "ves"
    /\ foods[1] = [FoodBanan EXCEPT !.grams = 12]
    /\ foods[3] = FoodKkBanan
    /\ foods[4] = FoodBananOfTwo

-----------------------------------------------------------------------------
(* The repository called directly (SpecRepo): entries saved and deleted,   *)
(* saved foods updated and deleted, by two users, with ids of their own    *)
(* rows, of the other user's rows and of no row.  turn holds the last      *)
(* call: [op |-> "repo", call, user, id, ok].                              *)

FoodIds == 1..5

\* The updates tried: calories=160.0 and name="Bk"
FieldUpdates == {[field |-> "calories", value |-> 1600],
                 [field |-> "name", value |-> <<"B", "k">>]}

MaxCalls == 3

InitRepo ==
    /\ memory = << >>
    /\ appends = << >>
    /\ entries = [rows |-> << >>, lastrowid |-> 0]
    /\ foods = EditedFoods
    /\ settings = << >>
    /\ clock = ClockStart
    /\ serverTz = "UTC"
    /\ turn = [op |-> "none"]
    /\ turns = 0
    /\ TzIdle
    /\ MtIdle

RepoCall(call, u, id, ok) ==
    /\ turn' = [op |-> "repo", call |-> call, user |-> u, id |-> id, ok |-> ok]
    /\ turns' = turns + 1
    /\ UNCHANGED <<tz, memory, appends, mt, settings, clock, serverTz>>

SaveEntry(u) ==
    /\ turns < MaxCalls
    /\ entries' = save_entry(entries, u, TextSoup, << >>,
                             [calories |-> JNum(120), protein |-> JNum(61),
                              fat |-> JNum(40), carbs |-> JNum(150)])
    /\ foods' = foods
    /\ RepoCall("save_entry", u, entries'.lastrowid, TRUE)

DeleteLastEntry(u) ==
    /\ turns < MaxCalls
    /\ \E deleted \in {delete_last_entry(entries, u)} :
          /\ entries' = deleted.table
          /\ foods' = foods
          /\ RepoCall("delete_last_entry", u, 0, deleted.ok)

UpdateCustomFood(u, id, upd) ==
    /\ turns < MaxCalls
    /\ \E updated \in {update_custom_food(foods, u, id, upd.field, upd.value)} :
          /\ foods' = updated.table
          /\ entries' = entries
          /\ RepoCall("update_custom_food", u, id, updated.ok)

DeleteCustomFood(u, id) ==
    /\ turns < MaxCalls
    /\ \E deleted \in {delete_custom_food(foods, u, id)} :
          /\ foods' = deleted.table
          /\ entries' = entries
          /\ RepoCall("delete_custom_food", u, id, deleted.ok)

NextRepo ==
    \/ \E u \in Users : SaveEntry(u)
    \/ \E u \in Users : DeleteLastEntry(u)
    \/ \E u \in Users, id \in FoodIds, upd \in FieldUpdates : UpdateCustomFood(u, id, upd)
    \/ \E u \in Users, id \in FoodIds : DeleteCustomFood(u, id)

SpecRepo == InitRepo /\ [][NextRepo]_vars

\* The rows of a table that user u does not own.
NotOwnedBy(rows, u) == SelectSeq(rows, LAMBDA r : r.user_id # u)

\* C30: repository mutations are scoped to the calling user: after any
\* sequence of calls, delete_last_entry(u), update_custom_food(u, id, ...)
\* and delete_custom_food(u, id) change and remove no row owned by another
\* user, and return false without effect when the id belongs to another
\* user or the user has no matching row.
C30_ScopedToCaller ==
    [][(/\ turn'.op = "repo"
        /\ turn'.call \in {"delete_last_entry", "update_custom_food", "delete_custom_food"}) =>
          LET u == turn'.user
              own_food == \E i \in 1..Len(foods) :
                              foods[i].id = turn'.id /\ foods[i].user_id = u
              own_entry == \E i \in 1..Len(entries.rows) : entries.rows[i].user_id = u
              matching == IF turn'.call = "delete_last_entry" THEN own_entry ELSE own_food
          IN  /\ NotOwnedBy(entries'.rows, u) = NotOwnedBy(entries.rows, u)
              /\ NotOwnedBy(foods', u) = NotOwnedBy(foods, u)
              /\ turn'.ok = matching
              /\ ~matching => (entries' = entries /\ foods' = foods)]_vars

\* User 1 has called update_custom_food and delete_custom_food with the id
\* of user 2's "banan", which is as it was, while the entry of user 2 is
\* also still there after user 1 deleted the own last entry.
C30_Witness ==
    /\ turn.op = "repo"
    /\ turn.call \in {"update_custom_food", "delete_custom_food"}
    /\ turn.user = 1
    /\ turn.id = 4
    /\ ~turn.ok
    /\ foods = EditedFoods
    /\ Len(entries.rows) = 1
    /\ entries.rows[1].user_id = 2
    /\ entries.lastrowid = 1

=============================================================================
